---- MODULE Spec2Model ----
(***************************************************************************)
(* Workforce scheduler: the shift enumerator, the variable factory, the    *)
(* objective and constraint builders of Scheduler, and the solver seen as  *)
(* a black box that returns any assignment satisfying the built            *)
(* constraints.                                                            *)
(***************************************************************************)
EXTENDS Integers, Sequences, FiniteSets, TLC

\* ---------------------------------------------------------------- constants
NUMBER_OF_WORKDAYS == 7
MAXIMUM_CONSECUTIVE_WORKDAYS == 7
PERIODS_PER_HOUR == 2
SHIFT_START_INTERVAL == 1
DEFAULT_SHIFT_IN_PERIODS == 8 * PERIODS_PER_HOUR
MINIMUM_SHIFT_IN_PERIODS == 4 * PERIODS_PER_HOUR
MAXIMUM_SHIFT_IN_PERIODS == DEFAULT_SHIFT_IN_PERIODS
DEFAULT_WEEKLY_MAXIMUM_SHIFTS == 5
WEEKDAY_FRI == 4
WEEKDAY_SAT == 5
WEEKDAY_SUN == 6

\* Preference (IntFlag)
NORMAL == 0
UNAVAILABLE == 1
UNDESIRABLE == 8

\* PropertyFlag members are modelled by their names; special_properties is a
\* set of them ("x & FLAG" is membership).
CAN_OPEN == "CAN_OPEN"
CAN_CLOSE == "CAN_CLOSE"
IS_STUDENT == "IS_STUDENT"
IS_IN_SCHOOL == "IS_IN_SCHOOL"
HAS_KEYS == "HAS_KEYS"

\* Python's None for an optional integer argument.
None == -1

\* The range employee ids are drawn from.
ID_LOWER_BOUND == 10000000
ID_UPPER_BOUND == 99999999

\* ------------------------------------------------------------ Python helpers
\* range(a, b, step) as a sequence, step > 0.
PyRange(a, b, step) ==
    LET n == IF b > a THEN ((b - a) + step - 1) \div step ELSE 0
    IN  [k \in 1..n |-> a + (k - 1) * step]

\* The concatenation of a sequence of sequences.
RECURSIVE Flatten(_)
Flatten(ss) ==
    IF Len(ss) = 0 THEN <<>>
    ELSE IF Len(ss) = 1 THEN ss[1]
    ELSE LET half == Len(ss) \div 2
         IN  Flatten(SubSeq(ss, 1, half)) \o Flatten(SubSeq(ss, half + 1, Len(ss)))

\* seq[i:i + n] with Python's clipping at the end of the list.
PySlice(seq, i, n) ==
    LET hi == IF i + n < Len(seq) THEN i + n ELSE Len(seq)
    IN  [k \in 1..(IF hi > i THEN hi - i ELSE 0) |-> seq[i + k]]

\* "v in seq"
InSeq(v, seq) == \E i \in 1..Len(seq) : seq[i] = v

\* ------------------------------------------------------------------ Employee
\* Employee.__init__: the defaults of the optional arguments.  A dictionary
\* is a function whose DOMAIN is its key set.
Employee(new_id, min_hours, max_hours, max_shifts, special_properties, current_workday_streak, weekends_config, preferences) ==
    [ id |-> new_id,
      min_hours |-> min_hours,
      max_hours |-> IF max_hours = None THEN min_hours ELSE max_hours,
      max_shifts |-> IF max_shifts = None THEN DEFAULT_WEEKLY_MAXIMUM_SHIFTS
                     ELSE max_shifts,
      special_properties |-> special_properties,
      current_workday_streak |-> IF current_workday_streak = None THEN 0
                                 ELSE current_workday_streak,
      weekends_config |-> weekends_config,
      preferences |-> preferences,
      shifts |-> <<>> ]

\* A faulty enumerator: the first period of a window is not looked up.
get_possible_shifts_skipping_first(number_of_periods, shift_length, days_preferences) ==
    LET starts == PyRange(0, number_of_periods - shift_length + 1,
                          SHIFT_START_INTERVAL)
        eligible_shift(i) ==
            ~ \E shift_index \in DOMAIN days_preferences :
                /\ shift_index > i
                /\ shift_index < i + shift_length
                /\ days_preferences[shift_index] = UNAVAILABLE
        window(i) == PyRange(i, i + shift_length, 1)
    IN  Flatten([k \in 1..Len(starts) |->
                   IF eligible_shift(starts[k]) THEN <<window(starts[k])>>
                   ELSE <<>>])

\* Employee.get_possible_shifts_for_day: every window of shift_length periods
\* starting at a multiple of SHIFT_START_INTERVAL that holds no period whose
\* preference equals UNAVAILABLE.  A shift is the list of its period indices.
get_possible_shifts_for_day(number_of_periods, shift_length, days_preferences) ==
    LET starts == PyRange(0, number_of_periods - shift_length + 1,
                          SHIFT_START_INTERVAL)
        eligible_shift(i) ==
            ~ \E shift_index \in DOMAIN days_preferences :
                /\ shift_index >= i
                /\ shift_index < i + shift_length
                /\ days_preferences[shift_index] = UNAVAILABLE
        window(i) == PyRange(i, i + shift_length, 1)
    IN  Flatten([k \in 1..Len(starts) |->
                   IF eligible_shift(starts[k]) THEN <<window(starts[k])>>
                   ELSE <<>>])

\* A faulty enumerator: the lengths stop one short of the maximum.
set_employee_shifts_short_of_maximum(employee, work_site_demands) ==
    LET minimum_shift_length ==
            IF IS_IN_SCHOOL \in employee.special_properties
            THEN 2 * PERIODS_PER_HOUR ELSE MINIMUM_SHIFT_IN_PERIODS
        lengths == PyRange(minimum_shift_length, MAXIMUM_SHIFT_IN_PERIODS, 1)
        days_preferences(day_index) ==
            IF day_index \in DOMAIN employee.preferences
            THEN employee.preferences[day_index] ELSE <<>>
        todays_shifts(day_index) ==
            Flatten([l \in 1..Len(lengths) |->
                get_possible_shifts_for_day(Len(work_site_demands[day_index + 1]),
                                            lengths[l],
                                            days_preferences(day_index))])
    IN  [d \in 1..Len(work_site_demands) |-> todays_shifts(d - 1)]

\* Employee.set_employee_shifts: the value assigned to self.shifts.
set_employee_shifts(employee, work_site_demands) ==
    LET minimum_shift_length ==
            IF IS_IN_SCHOOL \in employee.special_properties
            THEN 2 * PERIODS_PER_HOUR ELSE MINIMUM_SHIFT_IN_PERIODS
        lengths == PyRange(minimum_shift_length, MAXIMUM_SHIFT_IN_PERIODS + 1, 1)
        days_preferences(day_index) ==
            IF day_index \in DOMAIN employee.preferences
            THEN employee.preferences[day_index] ELSE <<>>
        todays_shifts(day_index) ==
            Flatten([l \in 1..Len(lengths) |->
                get_possible_shifts_for_day(Len(work_site_demands[day_index + 1]),
                                            lengths[l],
                                            days_preferences(day_index))])
    IN  [d \in 1..Len(work_site_demands) |-> todays_shifts(d - 1)]

\* ----------------------------------------------------------------- Employees
\* Employees.id_exists: some employee of the dictionary has the id (the
\* method returns True or falls off its end, which tests as false).
id_exists(list_of_employees, checked_id) ==
    \E key \in DOMAIN list_of_employees : checked_id = list_of_employees[key].id

\* isinstance(argument, Employee): an argument carries its class.
isinstance(argument) == argument.class = "Employee"

\* Employees.add: the dictionary after the call and the value returned.
add(list_of_employees, argument) ==
    IF ~ isinstance(argument)
    THEN [list |-> list_of_employees, returned |-> FALSE]
    ELSE [list |-> ((argument.employee.id :> argument.employee)
                       @@ list_of_employees),
          returned |-> TRUE]

\* Employees.remove: pop(employee.id, None).
remove(list_of_employees, employee) ==
    [key \in (DOMAIN list_of_employees) \ {employee.id} |-> list_of_employees[key]]
        @@ <<>>

\* The loop bound of generate_employee_id.
maximum_iterations == 2500

\* random.randint(ID_LOWER_BOUND, ID_UPPER_BOUND) at iteration i (from 0) of
\* a generator that yields `first` for the given number of draws and `then`
\* from there on.
randint(stream, i) == IF i < stream.collisions THEN stream.first ELSE stream.then

\* A faulty generator: the first draw is returned as it is.
generate_employee_id_unchecked(list_of_employees, stream) ==
    [new_id |-> randint(stream, 0), draws |-> 1]

\* Employees.generate_employee_id: the id returned (None after
\* maximum_iterations draws that all exist) and the number of draws made.
generate_employee_id(list_of_employees, stream) ==
    LET free == {i \in 0..(maximum_iterations - 1) :
                    ~ id_exists(list_of_employees, randint(stream, i))}
    IN  IF free = {} THEN [new_id |-> None, draws |-> maximum_iterations]
        ELSE LET i == CHOOSE j \in free : \A k \in free : j <= k
             IN  [new_id |-> randint(stream, i), draws |-> i + 1]

\* Before any call on the Employees object.
no_stream == [first |-> None, collisions |-> 0, then |-> None]
no_employee == Employee(None, 0, None, None, {}, None, <<>>, <<>>)
no_call == [op |-> "", class |-> "", employee |-> no_employee, stream |-> no_stream]
no_return == [added |-> FALSE, new_id |-> None, draws |-> 0]

\* ----------------------------------------------------------- Scheduler state
VARIABLES
    pc,                  \* position inside Scheduler.run
    employees,           \* the roster: Employees.list in insertion order
    work_site_demands,   \* Scheduler.work_site_demands
    start_day,           \* Scheduler.start_day
    weights,             \* Scheduler.weights, in hundredths
    weights_argument,    \* the weights the constructor was called with
    shift_start_interval,  \* Scheduler.shift_start_interval
    random_state,        \* the state of the random module's generator
    decision_variables,  \* the dictionary create_decision_variables returns
    problem,             \* Scheduler.problem: objective and constraints
    raised,              \* the exception that ended run, "" when none
    status,              \* LpProblem.status after solve (0 before)
    values,              \* the value of every decision variable after solve
    earlier,             \* what the earlier calls of create_lp_problem built
    employee_list,       \* Employees.list: employee id -> Employee
    call,                \* the last call on the Employees object
    returned             \* what that call returned

vars == <<pc, employees, work_site_demands, start_day, weights, weights_argument,
          shift_start_interval, random_state, decision_variables, problem, raised,
          status, values, earlier, employee_list, call, returned>>

\* Status codes of the solver.
LpStatusNotSolved == 0
LpStatusOptimal == 1
LpStatusInfeasible == -1

\* ------------------------------------------------------- decision variables
\* An LpVariable is modelled by its name, kept as the tuple of the family
\* tag and the integers the f-string joins.
XVar(eid, d, k) == <<"x", eid, d, k>>
DVar(eid, d) == <<"d", eid, d>>
PVar(eid, d) == <<"p", eid, d, d + 1>>
WVar(eid, j) == <<"w", eid, j>>
YVar(d, p) == <<"y", d, p>>

\* A faulty enumeration: the last day counts as the start of a day pair.
weekend_indices_with_last_day(n_days, startday) ==
    Flatten([d \in 1..n_days |->
                IF (startday + d - 1) % 7 \in {WEEKDAY_FRI, WEEKDAY_SAT}
                THEN <<d - 1>> ELSE <<>>])

\* The day indices create_decision_variables collects for one employee:
\* the days that own a day-pair variable and fall on a Friday or Saturday.
weekend_indices(n_days, startday) ==
    LET is_endpoint(day_index) ==
            /\ day_index + 1 < n_days
            /\ (startday + day_index) % 7 \in {WEEKDAY_FRI, WEEKDAY_SAT}
    IN  Flatten([d \in 1..n_days |->
                   IF is_endpoint(d - 1) THEN <<d - 1>> ELSE <<>>])

\* The pairs the weekend variables of one employee are created for.
weekends_split(n_days, startday) ==
    LET idx == weekend_indices(n_days, startday)
        split_start_idx == IF startday = WEEKDAY_SAT THEN 1 ELSE 0
        starts == PyRange(split_start_idx, Len(idx), 2)
    IN  [k \in 1..Len(starts) |-> PySlice(idx, starts[k], 2)]

\* Scheduler.create_decision_variables
create_decision_variables(emps, demands, startday) ==
    LET ids == {emps[i].id : i \in 1..Len(emps)}
        emp(eid) == emps[CHOOSE i \in 1..Len(emps) : emps[i].id = eid]
        n(eid) == Len(emp(eid).shifts)
        split(eid) == weekends_split(n(eid), startday)
    IN  [ shifts |-> [eid \in ids |->
              [d \in 1..n(eid) |->
                  [k \in 1..Len(emp(eid).shifts[d]) |-> XVar(eid, d - 1, k - 1)]]],
          workforce |-> [d \in 1..Len(demands) |->
              [p \in 1..Len(demands[d]) |-> YVar(d - 1, p - 1)]],
          days |-> [eid \in ids |-> [d \in 1..n(eid) |-> DVar(eid, d - 1)]],
          pairs |-> [eid \in ids |->
              [d \in 1..(IF n(eid) > 0 THEN n(eid) - 1 ELSE 0) |-> PVar(eid, d - 1)]],
          weekends |-> [eid \in ids |->
              [j \in 1..Len(split(eid)) |->
                  [var |-> WVar(eid, j - 1), day_indices |-> split(eid)[j]]]] ]

\* ------------------------------------------------------------- constraints
\* An LpConstraint: lhs sense rhs, lhs the list of (coefficient, variable)
\* terms of the affine expression.
Constraint(terms, sense, rhs) == [terms |-> terms, sense |-> sense, rhs |-> rhs]

\* lpSum over a list of variables.
lpSum(variables) == [i \in 1..Len(variables) |-> <<1, variables[i]>>]

\* A statement that raises instead of adding a constraint.
Raise(exception) == [raise |-> exception]

\* A faulty coverage: an upper limit in place of the equality.
coverage_at_most(emps, dv, demands, day_index) ==
    LET all_shifts_matching_period(period_index) ==
            Flatten([e \in 1..Len(emps) |->
                Flatten([k \in 1..Len(emps[e].shifts[day_index + 1]) |->
                    IF InSeq(period_index, emps[e].shifts[day_index + 1][k])
                    THEN <<dv.shifts[emps[e].id][day_index + 1][k]>>
                    ELSE <<>>])])
    IN  [p \in 1..Len(demands[day_index + 1]) |->
            Constraint(lpSum(all_shifts_matching_period(p - 1))
                           \o << <<-1, dv.workforce[day_index + 1][p]>> >>,
                       "<=", demands[day_index + 1][p])]

\* Coverage: one equality per period of the day.
coverage_constraints(emps, dv, demands, day_index) ==
    LET all_shifts_matching_period(period_index) ==
            Flatten([e \in 1..Len(emps) |->
                Flatten([k \in 1..Len(emps[e].shifts[day_index + 1]) |->
                    IF InSeq(period_index, emps[e].shifts[day_index + 1][k])
                    THEN <<dv.shifts[emps[e].id][day_index + 1][k]>>
                    ELSE <<>>])])
    IN  [p \in 1..Len(demands[day_index + 1]) |->
            Constraint(lpSum(all_shifts_matching_period(p - 1))
                           \o << <<-1, dv.workforce[day_index + 1][p]>> >>,
                       "==", demands[day_index + 1][p])]

\* A faulty collection: the shifts of every employee, capable or not.
any_employees_shifts(emps, dv, demands, day_index, period_index, flag) ==
    IF period_index < 0 THEN <<>>
    ELSE Flatten([e \in 1..Len(emps) |->
            Flatten([k \in 1..Len(emps[e].shifts[day_index + 1]) |->
                IF InSeq(period_index, emps[e].shifts[day_index + 1][k])
                THEN <<dv.shifts[emps[e].id][day_index + 1][k]>>
                ELSE <<>>])])

\* The shift variables of the employees holding `flag` whose shift contains
\* `period_index` (collected only while that period is visited).
capable_employees_shifts(emps, dv, demands, day_index, period_index, flag) ==
    IF period_index < 0 THEN <<>>
    ELSE Flatten([e \in 1..Len(emps) |->
            Flatten([k \in 1..Len(emps[e].shifts[day_index + 1]) |->
                IF /\ InSeq(period_index, emps[e].shifts[day_index + 1][k])
                   /\ flag \in emps[e].special_properties
                THEN <<dv.shifts[emps[e].id][day_index + 1][k]>>
                ELSE <<>>])])

\* A faulty capability pair: a list without shifts asks for nothing.
capability_constraints_unless_empty(emps, dv, demands, day_index) ==
    LET period_count == Len(demands[day_index + 1])
        last_period_index == period_count - 1
        first_period_index == IF period_count > 0 THEN 0 ELSE -1
        openers == capable_employees_shifts(emps, dv, demands, day_index,
                                            first_period_index, CAN_OPEN)
        closers == capable_employees_shifts(emps, dv, demands, day_index,
                                            last_period_index, CAN_CLOSE)
    IN  << Constraint(lpSum(openers), ">=", IF openers = <<>> THEN 0 ELSE 1),
           Constraint(lpSum(closers), ">=", IF closers = <<>> THEN 0 ELSE 1) >>

\* An opener and a closer on every day.
capability_constraints(emps, dv, demands, day_index) ==
    LET period_count == Len(demands[day_index + 1])
        last_period_index == period_count - 1
        first_period_index == IF period_count > 0 THEN 0 ELSE -1
    IN  << Constraint(lpSum(capable_employees_shifts(emps, dv, demands, day_index,
                                first_period_index, CAN_OPEN)), ">=", 1),
           Constraint(lpSum(capable_employees_shifts(emps, dv, demands, day_index,
                                last_period_index, CAN_CLOSE)), ">=", 1) >>

\* A faulty day constraint: at most one of the shifts and the day off.
at_most_one_shift_constraint(employee, dv, day_index) ==
    Constraint(lpSum(dv.shifts[employee.id][day_index + 1])
                   \o << <<1, dv.days[employee.id][day_index + 1]>> >>, "<=", 1)

\* One shift or the day off.
one_shift_constraint(employee, dv, day_index) ==
    Constraint(lpSum(dv.shifts[employee.id][day_index + 1])
                   \o << <<1, dv.days[employee.id][day_index + 1]>> >>, "==", 1)

\* A faulty weekly list: never emptied, it holds every day from day 0 on.
employee_shifts_never_emptied(employee, dv, day_index) ==
    LET first_day == 0
    IN  Flatten([d \in 1..(day_index - first_day + 1) |->
            [k \in 1..Len(employee.shifts[first_day + d]) |->
                <<Len(employee.shifts[first_day + d][k]),
                  dv.shifts[employee.id][first_day + d][k]>>]])

\* employee_weekly_shifts when day_index is reached: the (length, variable)
\* pairs appended since the list was last emptied, which happens after each
\* day with day_index % 7 = 6.
employee_weekly_shifts(employee, dv, day_index) ==
    LET first_day == day_index - (day_index % 7)
    IN  Flatten([d \in 1..(day_index - first_day + 1) |->
            [k \in 1..Len(employee.shifts[first_day + d]) |->
                <<Len(employee.shifts[first_day + d][k]),
                  dv.shifts[employee.id][first_day + d][k]>>]])

\* Weekly hours, an equality when min_hours = max_hours.
weekly_hours_constraints(employee, dv, day_index) ==
    LET weekly == employee_weekly_shifts(employee, dv, day_index)
    IN  IF employee.min_hours = employee.max_hours
        THEN << Constraint(weekly, "==", employee.min_hours) >>
        ELSE << Constraint(weekly, ">=", employee.min_hours),
                Constraint(weekly, "<=", employee.max_hours) >>

\* A faulty shift count: one shift more than max_shifts.
weekly_shifts_one_more(employee, dv, day_index) ==
    LET weekly == employee_weekly_shifts(employee, dv, day_index)
    IN  Constraint([i \in 1..Len(weekly) |-> <<1, weekly[i][2]>>],
                   "<=", employee.max_shifts + 1)

\* Weekly shift count.
weekly_shifts_constraint(employee, dv, day_index) ==
    LET weekly == employee_weekly_shifts(employee, dv, day_index)
    IN  Constraint([i \in 1..Len(weekly) |-> <<1, weekly[i][2]>>],
                   "<=", employee.max_shifts)

\* A faulty streak window: one day longer.
streak_constraint_long_window(employee, dv, day_index) ==
    LET first_streak_day ==
            IF day_index - (MAXIMUM_CONSECUTIVE_WORKDAYS + 1) < 0 THEN 0
            ELSE day_index - (MAXIMUM_CONSECUTIVE_WORKDAYS + 1)
        r == PyRange(first_streak_day, day_index + 1, 1)
    IN  Constraint(lpSum([i \in 1..Len(r) |-> dv.days[employee.id][r[i] + 1]]),
                   ">=", 1)

\* A day off among the days first_streak_day..day_index.
streak_constraint(employee, dv, day_index) ==
    LET first_streak_day ==
            IF day_index - MAXIMUM_CONSECUTIVE_WORKDAYS < 0 THEN 0
            ELSE day_index - MAXIMUM_CONSECUTIVE_WORKDAYS
        r == PyRange(first_streak_day, day_index + 1, 1)
    IN  Constraint(lpSum([i \in 1..Len(r) |-> dv.days[employee.id][r[i] + 1]]),
                   ">=", 1)

\* The constraints of one day of one employee, in the order they are added.
employee_day_constraints(employee, dv, day_index) ==
    LET streaks_start_index ==
            MAXIMUM_CONSECUTIVE_WORKDAYS - employee.current_workday_streak
    IN  << one_shift_constraint(employee, dv, day_index) >>
        \o (IF day_index % 7 = 6
            THEN weekly_hours_constraints(employee, dv, day_index)
                 \o << weekly_shifts_constraint(employee, dv, day_index) >>
            ELSE <<>>)
        \o (IF day_index >= streaks_start_index
            THEN << streak_constraint(employee, dv, day_index) >>
            ELSE <<>>)

\* A faulty day pair: the variable copies the second day alone.
pair_constraints_second_day_only(employee, dv, pair_idx) ==
    LET day2_off == dv.days[employee.id][pair_idx + 2]
        pair_off_variable == dv.pairs[employee.id][pair_idx + 1]
    IN  << Constraint(<< <<1, pair_off_variable>>, <<-1, day2_off>> >>, "<=", 0),
           Constraint(<< <<1, pair_off_variable>>, <<-1, day2_off>> >>, ">=", 0) >>

\* The day-pair variable is the AND of its two day-off variables.
pair_constraints(employee, dv, pair_idx) ==
    LET day1_off == dv.days[employee.id][pair_idx + 1]
        day2_off == dv.days[employee.id][pair_idx + 2]
        pair_off_variable == dv.pairs[employee.id][pair_idx + 1]
    IN  << Constraint(<< <<1, pair_off_variable>>, <<-1, day1_off>> >>, "<=", 0),
           Constraint(<< <<1, pair_off_variable>>, <<-1, day2_off>> >>, "<=", 0),
           Constraint(<< <<1, pair_off_variable>>, <<-1, day1_off>>,
                         <<-1, day2_off>> >>, ">=", -1) >>

\* The weekend variable against its one or two day-pair variables.  The
\* one-pair branch adds the undefined name `constraints`.
weekend_constraints(employee, dv, weekend_idx) ==
    LET weekend_variable == dv.weekends[employee.id][weekend_idx + 1].var
        day_indices == dv.weekends[employee.id][weekend_idx + 1].day_indices
        pair1_off == dv.pairs[employee.id][day_indices[1] + 1]
        pair2_off == dv.pairs[employee.id][day_indices[2] + 1]
    IN  IF Len(day_indices) > 1
        THEN << Constraint(<< <<1, weekend_variable>>, <<-1, pair1_off>> >>, ">=", 0),
                Constraint(<< <<1, weekend_variable>>, <<-1, pair2_off>> >>, ">=", 0),
                Constraint(<< <<1, weekend_variable>>, <<-1, pair1_off>>,
                              <<-1, pair2_off>> >>, "<=", 0) >>
        ELSE << Raise("NameError") >>

\* list[i] for an index that may be out of range (i >= 0).
ValidIndex(list, i) == i + 1 \in 1..Len(list)

\* The weekends of weekends_config['single'] are off.  A missing key
\* is the KeyError the code catches.
single_weekend_constraints(employee, dv) ==
    IF "single" \notin DOMAIN employee.weekends_config THEN <<>>
    ELSE LET single == employee.weekends_config["single"]
         IN  [i \in 1..Len(single) |->
                 IF ValidIndex(dv.weekends[employee.id], single[i])
                 THEN Constraint(<< <<1, dv.weekends[employee.id][single[i] + 1].var>> >>,
                                 "==", 1)
                 ELSE Raise("IndexError")]

\* A faulty group constraint: one weekend fewer than the group's minimum.
group_weekend_one_fewer(employee, dv) ==
    IF "groups" \notin DOMAIN employee.weekends_config THEN <<>>
    ELSE LET groups == employee.weekends_config["groups"]
             minimum_weekends(g) == groups[g][1] - 1
             indices(g) == Tail(groups[g])
         IN  [g \in 1..Len(groups) |->
                 IF \A i \in 1..Len(indices(g)) :
                        ValidIndex(dv.weekends[employee.id], indices(g)[i])
                 THEN Constraint(lpSum([i \in 1..Len(indices(g)) |->
                                     dv.weekends[employee.id][indices(g)[i] + 1].var]),
                                 ">=", minimum_weekends(g))
                 ELSE Raise("IndexError")]

\* At least weekend_group_off[0] of the weekends of a group are off.
group_weekend_constraints(employee, dv) ==
    IF "groups" \notin DOMAIN employee.weekends_config THEN <<>>
    ELSE LET groups == employee.weekends_config["groups"]
             minimum_weekends(g) == groups[g][1]
             indices(g) == Tail(groups[g])
         IN  [g \in 1..Len(groups) |->
                 IF \A i \in 1..Len(indices(g)) :
                        ValidIndex(dv.weekends[employee.id], indices(g)[i])
                 THEN Constraint(lpSum([i \in 1..Len(indices(g)) |->
                                     dv.weekends[employee.id][indices(g)[i] + 1].var]),
                                 ">=", minimum_weekends(g))
                 ELSE Raise("IndexError")]

\* All statements of the per-employee loop for one employee.
employee_constraints(employee, dv) ==
    Flatten([d \in 1..Len(employee.shifts) |->
                employee_day_constraints(employee, dv, d - 1)])
    \o Flatten([i \in 1..Len(dv.pairs[employee.id]) |->
                pair_constraints(employee, dv, i - 1)])
    \o Flatten([j \in 1..Len(dv.weekends[employee.id]) |->
                weekend_constraints(employee, dv, j - 1)])
    \o single_weekend_constraints(employee, dv)
    \o group_weekend_constraints(employee, dv)

\* Every statement of create_constraints that adds to the problem or raises,
\* in program order.
constraint_statements(emps, dv, demands) ==
    Flatten([d \in 1..Len(demands) |->
                coverage_constraints(emps, dv, demands, d - 1)
                \o capability_constraints(emps, dv, demands, d - 1)])
    \o Flatten([e \in 1..Len(emps) |-> employee_constraints(emps[e], dv)])

IsRaise(statement) == "raise" \in DOMAIN statement

\* Scheduler.create_constraints: the constraints added before the first
\* statement that raises, and the exception ("" when the method returns).
create_constraints(emps, dv, demands) ==
    LET stmts == constraint_statements(emps, dv, demands)
        raising == {i \in 1..Len(stmts) : IsRaise(stmts[i])}
        first == IF raising = {} THEN Len(stmts) + 1
                 ELSE CHOOSE i \in raising : \A j \in raising : i <= j
    IN  [ constraints |-> SubSeq(stmts, 1, first - 1),
          raised |-> IF raising = {} THEN "" ELSE stmts[first].raise ]

\* --------------------------------------------------------------- objective
\* The weights are kept in hundredths: .25 is 25.
DEFAULT_WEIGHTS ==
    [preference |-> 25, day_pairs_off |-> 25, weekends_off |-> 25,
     excess_workforce |-> 25]

\* random.choice(seq) for a generator in state `state`: the generator's state
\* decides the element, and every element is drawn from some state.
random_choice(seq, state) == seq[(state % Len(seq)) + 1]
random_advance(seq, state) == state \div Len(seq)

\* The pair indices the weekly reward of day_index is drawn from.
reward_indices(shift_count, day_index) ==
    LET offset == IF day_index = shift_count - 1 THEN 0 ELSE 1
    IN  PyRange(day_index - 6, day_index - offset, 1)

\* The (employee position, day_index) at which create_objective draws, in
\* the order of the draws.
reward_sites(emps) ==
    Flatten([e \in 1..Len(emps) |->
        Flatten([d \in 1..Len(emps[e].shifts) |->
            IF (d - 1) % 7 = 6 THEN << <<e, d - 1>> >> ELSE <<>>])])

\* The successive results of random.choice at the given sites.
RECURSIVE reward_draws(_, _, _)
reward_draws(emps, sites, state) ==
    IF sites = <<>> THEN <<>>
    ELSE LET indices == reward_indices(Len(emps[Head(sites)[1]].shifts),
                                       Head(sites)[2])
         IN  << random_choice(indices, state) >>
             \o reward_draws(emps, Tail(sites), random_advance(indices, state))

RECURSIVE random_after(_, _, _)
random_after(emps, sites, state) ==
    IF sites = <<>> THEN state
    ELSE random_after(emps, Tail(sites),
             random_advance(reward_indices(Len(emps[Head(sites)[1]].shifts),
                                           Head(sites)[2]), state))

\* The factor of a shift variable: the employee's preference looked up with
\* the shift's index and tested for the UNDESIRABLE bit; a missing key is
\* the KeyError the code catches.
preference_factor(employee, day_index, shift_index) ==
    IF /\ day_index \in DOMAIN employee.preferences
       /\ shift_index \in DOMAIN employee.preferences[day_index]
       /\ (employee.preferences[day_index][shift_index] \div UNDESIRABLE) % 2 = 1
    THEN UNDESIRABLE ELSE 1

\* Scheduler.create_objective: the terms (coefficient, variable) of the sum.
create_objective(emps, dv, w, state) ==
    LET sites == reward_sites(emps)
        draws == reward_draws(emps, sites, state)
        draw_at(e, day_index) ==
            draws[CHOOSE i \in 1..Len(sites) : sites[i] = <<e, day_index>>]
        day_terms(e, day_index) ==
            [k \in 1..Len(emps[e].shifts[day_index + 1]) |->
                << w.preference * preference_factor(emps[e], day_index, k - 1),
                   dv.shifts[emps[e].id][day_index + 1][k] >>]
            \o (IF day_index % 7 = 6
                THEN << << -w.day_pairs_off,
                           dv.pairs[emps[e].id][draw_at(e, day_index) + 1] >> >>
                ELSE <<>>)
        employee_terms(e) ==
            Flatten([d \in 1..Len(emps[e].shifts) |-> day_terms(e, d - 1)])
            \o [j \in 1..Len(dv.weekends[emps[e].id]) |->
                   << -w.weekends_off, dv.weekends[emps[e].id][j].var >>]
    IN  Flatten([e \in 1..Len(emps) |-> employee_terms(e)])
        \o Flatten([d \in 1..Len(dv.workforce) |->
               [p \in 1..Len(dv.workforce[d]) |->
                   << w.excess_workforce, dv.workforce[d][p] >>]])

\* ------------------------------------------------------------------ solver
\* The bounds and category LpVariable is created with: x, d, p and w are
\* integers in 0..1; y is an integer >= 0.  No satisfying y exceeds the
\* number of shift variables of its day, which closes its range here.
lower_bound(var) == 0

upper_bound(var, dv) ==
    IF var[1] # "y" THEN 1
    ELSE LET perday(eid) == Len(dv.shifts[eid][var[2] + 1])
             RECURSIVE total(_)
             total(S) == IF S = {} THEN 0
                         ELSE LET eid == CHOOSE z \in S : TRUE
                              IN  perday(eid) + total(S \ {eid})
         IN  total(DOMAIN dv.shifts)

\* The order in which the search fixes the variables: day by day, so that
\* every constraint is decided as early as possible.
var_order(emps, dv) ==
    LET weekends_closed(eid, d) ==
            Flatten([j \in 1..Len(dv.weekends[eid]) |->
                LET di == dv.weekends[eid][j].day_indices
                IN  IF di[Len(di)] = d - 2 THEN << dv.weekends[eid][j].var >>
                    ELSE <<>>])
        of_employee(eid, d) ==
            dv.shifts[eid][d] \o << dv.days[eid][d] >>
            \o (IF d >= 2 THEN << dv.pairs[eid][d - 1] >> \o weekends_closed(eid, d)
                ELSE <<>>)
    IN  Flatten([d \in 1..Len(dv.workforce) |->
            Flatten([e \in 1..Len(emps) |-> of_employee(emps[e].id, d)])
            \o dv.workforce[d]])

RECURSIVE lhs_value(_, _, _)
lhs_value(terms, a, i) ==
    IF i > Len(terms) THEN 0
    ELSE terms[i][1] * a[terms[i][2]] + lhs_value(terms, a, i + 1)

\* Whether the values `a` satisfy constraint c (terms refer to positions).
holds(c, a) ==
    LET v == lhs_value(c.terms, a, 1)
    IN  CASE c.sense = "==" -> v = c.rhs
          [] c.sense = ">=" -> v >= c.rhs
          [] c.sense = "<=" -> v <= c.rhs

\* The least and the greatest value of a list of terms over the bounds of
\* their variables.
least(terms, lbs, ubs) ==
    lhs_value(SelectSeq(terms, LAMBDA t : t[1] < 0), ubs, 1)
    + lhs_value(SelectSeq(terms, LAMBDA t : t[1] > 0), lbs, 1)

greatest(terms, lbs, ubs) ==
    lhs_value(SelectSeq(terms, LAMBDA t : t[1] > 0), ubs, 1)
    + lhs_value(SelectSeq(terms, LAMBDA t : t[1] < 0), lbs, 1)

\* What constraint c demands of the variables at positions 1..i alone, the
\* later ones ranging over their bounds: the terms fixed so far against the
\* right-hand side less the least (greatest) value of the open terms.  At the
\* last position of c this is c itself.  A demand that no values within the
\* bounds can fail is left out.
projections(c, i, lbs, ubs) ==
    LET fixed == SelectSeq(c.terms, LAMBDA t : t[2] <= i)
        open == SelectSeq(c.terms, LAMBDA t : t[2] > i)
        at_most == c.rhs - least(open, lbs, ubs)
        at_least == c.rhs - greatest(open, lbs, ubs)
    IN  (IF c.sense \in {"<=", "=="} /\ greatest(fixed, lbs, ubs) > at_most
         THEN << [terms |-> fixed, sense |-> "<=", rhs |-> at_most] >>
         ELSE <<>>)
        \o (IF c.sense \in {">=", "=="} /\ least(fixed, lbs, ubs) < at_least
            THEN << [terms |-> fixed, sense |-> ">=", rhs |-> at_least] >>
            ELSE <<>>)

\* The values of the first i - 1 variables in F extended, one variable at a
\* time, to all n variables, keeping at each position the values that the
\* constraints still admit.
RECURSIVE search(_, _, _, _, _)
search(F, i, n, domains, decided) ==
    IF i > n \/ Cardinality(F) = 0 THEN F
    ELSE search({ c \in {Append(a, v) : a \in F, v \in domains[i]} :
                    \A k \in 1..Len(decided[i]) : holds(decided[i][k], c) },
                i + 1, n, domains, decided)

\* Every assignment of the decision variables, within their bounds, that
\* satisfies all the constraints: what solve may return.  (<<>> \o f and
\* f @@ <<>> only make TLC tabulate f once.)
solutions(constraints, emps, dv) ==
    LET order == var_order(emps, dv)
        n == Len(order)
        varset == {order[i] : i \in 1..n}
        pos == [v \in varset |-> CHOOSE i \in 1..n : order[i] = v] @@ <<>>
        lbs == <<>> \o [i \in 1..n |-> lower_bound(order[i])]
        ubs == <<>> \o [i \in 1..n |-> upper_bound(order[i], dv)]
        indexed == <<>> \o [k \in 1..Len(constraints) |->
            [ terms |-> <<>> \o [t \in 1..Len(constraints[k].terms) |->
                           << constraints[k].terms[t][1],
                              pos[constraints[k].terms[t][2]] >>],
              sense |-> constraints[k].sense,
              rhs |-> constraints[k].rhs ]]
        touched == <<>> \o [k \in 1..Len(indexed) |->
            {indexed[k].terms[t][2] : t \in 1..Len(indexed[k].terms)}]
        decided == <<>> \o [i \in 1..n |->
            Flatten([k \in 1..Len(indexed) |->
                IF i \in touched[k] THEN projections(indexed[k], i, lbs, ubs)
                ELSE <<>>])]
        constant_ok == \A k \in 1..Len(indexed) :
                           touched[k] = {} => holds(indexed[k], <<>>)
        domains == <<>> \o [i \in 1..n |-> lbs[i]..ubs[i]]
    IN  IF ~ constant_ok THEN {}
        ELSE { [v \in varset |-> a[pos[v]]] :
               a \in search({<<>>}, 1, n, domains, decided) }

\* ---------------------------------------------------------------- reporter
\* Text is a sequence of one-character strings.
Digit == <<"0", "1", "2", "3", "4", "5", "6", "7", "8", "9">>

\* str(n), as an f-string formats an integer.
RECURSIVE str(_)
str(n) ==
    IF n < 0 THEN <<"-">> \o str(-n)
    ELSE IF n < 10 THEN <<Digit[n + 1]>>
    ELSE Append(str(n \div 10), Digit[(n % 10) + 1])

\* The name create_decision_variables passes to LpVariable for a variable.
lp_var_name(var) ==
    CASE var[1] \in {"x"} ->
             <<"x">> \o str(var[2]) \o <<":">> \o str(var[3]) \o <<":">> \o str(var[4])
      [] var[1] \in {"d", "w", "y"} ->
             <<var[1]>> \o str(var[2]) \o <<":">> \o str(var[3])
      [] var[1] \in {"p"} ->
             <<"p">> \o str(var[2]) \o <<":">> \o str(var[3]) \o <<"-">> \o str(var[4])

\* The name LpVariable keeps.  The library is not part of the sources: it
\* either keeps the text or replaces the characters it does not allow in a
\* name, of which only '-' occurs here, by '_'.
LpVariable_name(text, translated) ==
    [i \in 1..Len(text) |-> IF translated /\ text[i] = "-" THEN "_" ELSE text[i]]

\* text.split(sep) for a one-character separator.
RECURSIVE split(_, _)
split(text, sep) ==
    IF \A i \in 1..Len(text) : text[i] # sep THEN <<text>>
    ELSE LET at == CHOOSE i \in 1..Len(text) :
                       text[i] = sep /\ \A j \in 1..(i - 1) : text[j] # sep
         IN  <<SubSeq(text, 1, at - 1)>> \o split(SubSeq(text, at + 1, Len(text)), sep)

IsDigit(c) == \E i \in 1..10 : Digit[i] = c
DigitValue(c) == (CHOOSE i \in 1..10 : Digit[i] = c) - 1

\* int(text): an optional sign, then digits with single underscores between
\* them; anything else is a ValueError.
int_literal_ok(text) ==
    LET body == IF text # <<>> /\ text[1] \in {"-", "+"} THEN Tail(text) ELSE text
    IN  /\ body # <<>>
        /\ \A i \in 1..Len(body) : IsDigit(body[i]) \/ body[i] = "_"
        /\ body[1] # "_" /\ body[Len(body)] # "_"
        /\ \A i \in 1..(Len(body) - 1) : ~ (body[i] = "_" /\ body[i + 1] = "_")

RECURSIVE digits_value(_)
digits_value(digits) ==
    IF digits = <<>> THEN 0
    ELSE 10 * digits_value(SubSeq(digits, 1, Len(digits) - 1))
         + DigitValue(digits[Len(digits)])

int(text) ==
    LET negative == text[1] = "-"
        digits == SelectSeq(text, IsDigit)
    IN  IF negative THEN - digits_value(digits) ELSE digits_value(digits)

\* Scheduler.get_decision_var_ids on a variable's name: the list of
\* integers it returns, or the exception int raises.
get_decision_var_ids(name) ==
    LET pieces == split(Tail(name), ":")
    IN  IF \A i \in 1..Len(pieces) : int_literal_ok(pieces[i])
        THEN [raised |-> "", ids |-> [i \in 1..Len(pieces) |-> int(pieces[i])]]
        ELSE [raised |-> "ValueError", ids |-> <<>>]

\* ------------------------------------------------------------------ actions
\* The number of calls of create_lp_problem a client makes.
MaxBuilds == 2

\* create_lp_problem, first loop: every employee's candidate shifts.
SetEmployeeShifts ==
    /\ pc = "shifts"
    /\ employees' = [e \in 1..Len(employees) |->
           [employees[e] EXCEPT !.shifts =
               set_employee_shifts(employees[e], work_site_demands)]]
    /\ pc' = "variables"
    /\ UNCHANGED <<work_site_demands, start_day, weights,
                   weights_argument, shift_start_interval, random_state,
                   decision_variables, problem, raised, status, values, earlier,
                   employee_list, call, returned>>

CreateDecisionVariables ==
    /\ pc = "variables"
    /\ decision_variables' =
           create_decision_variables(employees, work_site_demands, start_day)
    /\ pc' = "objective"
    /\ UNCHANGED <<employees, work_site_demands, start_day, weights,
                   weights_argument, shift_start_interval, random_state,
                   problem, raised, status, values, earlier,
                   employee_list, call, returned>>

CreateObjective ==
    /\ pc = "objective"
    /\ problem' = [problem EXCEPT !.objective =
           create_objective(employees, decision_variables, weights, random_state)]
    /\ random_state' = random_after(employees, reward_sites(employees), random_state)
    /\ pc' = "constraints"
    /\ UNCHANGED <<employees, work_site_demands, start_day, weights,
                   weights_argument, shift_start_interval,
                   decision_variables, raised, status, values, earlier,
                   employee_list, call, returned>>

\* An exception leaves create_constraints, create_lp_problem and run.
CreateConstraints ==
    /\ pc = "constraints"
    /\ LET built == create_constraints(employees, decision_variables,
                                       work_site_demands)
       IN  /\ problem' = [problem EXCEPT !.constraints = built.constraints]
           /\ raised' = built.raised
           /\ pc' = IF built.raised = "" THEN "solve" ELSE "raised"
    /\ UNCHANGED <<employees, work_site_demands, start_day, weights,
                   weights_argument, shift_start_interval, random_state,
                   decision_variables, status, values, earlier,
                   employee_list, call, returned>>

\* A faulty run: the solver is invoked before the constraints are added.
SolveBeforeConstraints ==
    /\ pc = "constraints"
    /\ LET found == solutions(problem.constraints, employees, decision_variables)
       IN  IF found = {}
           THEN /\ status' = LpStatusInfeasible
                /\ values' = <<>>
           ELSE /\ status' = LpStatusOptimal
                /\ values' \in found
    /\ pc' = "report"
    /\ UNCHANGED <<employees, work_site_demands, start_day, weights,
                   weights_argument, shift_start_interval, random_state,
                   decision_variables, problem, raised, earlier,
                   employee_list, call, returned>>

\* problem.solve: infeasible when no assignment satisfies the constraints,
\* else any assignment that does (the solver stops within a gap of the
\* optimum, or at its time limit).
Solve ==
    /\ pc = "solve"
    /\ LET found == solutions(problem.constraints, employees, decision_variables)
       IN  IF found = {}
           THEN /\ status' = LpStatusInfeasible
                /\ values' = <<>>
           ELSE /\ status' = LpStatusOptimal
                /\ values' \in found
    /\ pc' = "report"
    /\ UNCHANGED <<employees, work_site_demands, start_day, weights,
                   weights_argument, shift_start_interval, random_state,
                   decision_variables, problem, raised, earlier,
                   employee_list, call, returned>>

\* print_results only prints.
PrintResults ==
    /\ pc = "report"
    /\ pc' = "done"
    /\ UNCHANGED <<employees, work_site_demands, start_day, weights,
                   weights_argument, shift_start_interval, random_state,
                   decision_variables, problem, raised, status, values, earlier,
                   employee_list, call, returned>>

\* A further call of create_lp_problem once the previous one has returned:
\* it starts from a new LpProblem.  What the previous call built is kept
\* aside for comparison.
CreateLpProblemAgain ==
    /\ pc = "solve"
    /\ Len(earlier) + 1 < MaxBuilds
    /\ earlier' = Append(earlier,
           [ shifts |-> [e \in 1..Len(employees) |-> employees[e].shifts],
             variables |-> decision_variables,
             problem |-> problem ])
    /\ problem' = [objective |-> <<>>, constraints |-> <<>>]
    /\ pc' = "shifts"
    /\ UNCHANGED <<employees, work_site_demands, start_day, weights,
                   weights_argument, shift_start_interval, random_state,
                   decision_variables, raised, status, values,
                   employee_list, call, returned>>

\* Scheduler.run.
Next ==
    \/ SetEmployeeShifts
    \/ CreateDecisionVariables
    \/ CreateObjective
    \/ CreateConstraints
    \/ Solve
    \/ PrintResults

\* A client that calls create_lp_problem itself, more than once.
NextBuild ==
    \/ SetEmployeeShifts
    \/ CreateDecisionVariables
    \/ CreateObjective
    \/ CreateConstraints
    \/ CreateLpProblemAgain

\* An optional dictionary argument: no dictionary (None), or one.
NotGiven == {}
Given(dictionary) == {dictionary}

\* sum(weights.values()).
RECURSIVE sum_values(_, _)
sum_values(dictionary, keys) ==
    IF keys = {} THEN 0
    ELSE LET key == CHOOSE k \in keys : TRUE
         IN  dictionary[key] + sum_values(dictionary, keys \ {key})

\* isclose(a, 1) for a in hundredths: the tolerance of isclose is far below
\* one hundredth.
isclose_to_one(a) == a = 100

\* A faulty constructor: weights that were passed are used as they are.
scheduler_weights_unvalidated(weights_arg) ==
    IF weights_arg = NotGiven THEN DEFAULT_WEIGHTS
    ELSE CHOOSE w \in weights_arg : TRUE

\* The weights Scheduler.__init__ keeps: the defaults unless weights were
\* passed and sum to 1.
scheduler_weights(weights_arg) ==
    IF weights_arg = NotGiven THEN DEFAULT_WEIGHTS
    ELSE LET w == CHOOSE x \in weights_arg : TRUE
         IN  IF ~ isclose_to_one(sum_values(w, DOMAIN w)) THEN DEFAULT_WEIGHTS
             ELSE w

\* Scheduler.__init__ followed by the entry into run.  The weights are the
\* defaults when none are given or they do not sum to 1; start_day is 0 when
\* none is given.
SchedulerInit(roster, demands, weights_arg, start_day_arg, shift_start_interval_arg, seed) ==
    /\ pc = "shifts"
    /\ employees = roster
    /\ work_site_demands = demands
    /\ weights_argument = weights_arg
    /\ weights = scheduler_weights(weights_arg)
    /\ shift_start_interval = IF shift_start_interval_arg = None
                              THEN SHIFT_START_INTERVAL
                              ELSE shift_start_interval_arg
    /\ start_day = IF start_day_arg = None THEN 0 ELSE start_day_arg
    /\ random_state = seed
    /\ decision_variables = <<>>
    /\ problem = [objective |-> <<>>, constraints |-> <<>>]
    /\ raised = ""
    /\ status = LpStatusNotSolved
    /\ values = <<>>
    /\ earlier = <<>>
    /\ employee_list = <<>>
    /\ call = no_call
    /\ returned = no_return

\* Employees.add(argument).
Add(argument) ==
    /\ pc = "roster"
    /\ LET result == add(employee_list, argument)
       IN  /\ employee_list' = result.list
           /\ returned' = [no_return EXCEPT !.added = result.returned]
    /\ call' = [no_call EXCEPT !.op = "add", !.class = argument.class,
                               !.employee = argument.employee]
    /\ UNCHANGED <<pc, employees, work_site_demands, start_day, weights,
                   weights_argument, shift_start_interval,
                   random_state, decision_variables, problem, raised, status,
                   values, earlier>>

\* Employees.remove(employee).
Remove(employee) ==
    /\ pc = "roster"
    /\ employee_list' = remove(employee_list, employee)
    /\ returned' = no_return
    /\ call' = [no_call EXCEPT !.op = "remove", !.class = "Employee",
                               !.employee = employee]
    /\ UNCHANGED <<pc, employees, work_site_demands, start_day, weights,
                   weights_argument, shift_start_interval,
                   random_state, decision_variables, problem, raised, status,
                   values, earlier>>

\* Employees.generate_employee_id() with the generator yielding `stream`.
GenerateEmployeeId(stream) ==
    /\ pc = "roster"
    /\ LET result == generate_employee_id(employee_list, stream)
       IN  returned' = [no_return EXCEPT !.new_id = result.new_id,
                                         !.draws = result.draws]
    /\ call' = [no_call EXCEPT !.op = "generate_employee_id", !.stream = stream]
    /\ UNCHANGED <<pc, employees, work_site_demands, start_day, weights,
                   weights_argument, shift_start_interval,
                   random_state, decision_variables, problem, raised, status,
                   values, earlier, employee_list>>

\* Employees.__init__ without a dictionary, and no scheduler run.
EmployeesInit ==
    /\ pc = "roster"
    /\ employees = <<>>
    /\ work_site_demands = <<>>
    /\ weights = DEFAULT_WEIGHTS
    /\ weights_argument = NotGiven
    /\ shift_start_interval = SHIFT_START_INTERVAL
    /\ start_day = 0
    /\ random_state = 0
    /\ decision_variables = <<>>
    /\ problem = [objective |-> <<>>, constraints |-> <<>>]
    /\ raised = ""
    /\ status = LpStatusNotSolved
    /\ values = <<>>
    /\ earlier = <<>>
    /\ employee_list = <<>>
    /\ call = no_call
    /\ returned = no_return

\* ------------------------------------------------------------------- inputs
\* Bounds of the inputs.
MaxDemand == 2
MaxPeriods == 5
MaxSeed == 1
MaxDays == 14

OpenClose == {{}, {CAN_OPEN}, {CAN_CLOSE}, {CAN_OPEN, CAN_CLOSE}}

\* A day of n periods with demand v in period q and none elsewhere.
DemandDay(n, q, v) == [p \in 1..n |-> IF p - 1 = q THEN v ELSE 0]

\* One short day: two employees in school, the first with any capabilities
\* and one marked period, a demand in the first or last period.
DayScenarios ==
    { [ roster |-> << Employee(1, 0, None, None, {IS_IN_SCHOOL} \cup fa, streak,
                               <<>>, pref),
                      Employee(2, 0, None, None, {IS_IN_SCHOOL} \cup fb, None,
                               <<>>, <<>>) >>,
        demands |-> << DemandDay(n, q, v) >>,
        start_day |-> None, seed |-> 0 ] :
      n \in 4..MaxPeriods, fa \in OpenClose, fb \in {{CAN_OPEN, CAN_CLOSE}, {CAN_CLOSE}},
      q \in {0, 3}, v \in 0..MaxDemand, streak \in {None, 7},
      pref \in {<<>>} \cup {(0 :> (m :> UNAVAILABLE)) : m \in 0..(MaxPeriods - 1)}
                    \cup {(0 :> (0 :> UNDESIRABLE))} }

\* The days marked unavailable: their first period, which every shift of a
\* four-period day contains.
UnavailableOn(days) == [d \in days |-> (0 :> UNAVAILABLE)]

\* The days of an n-day calendar that fall on the given days of its weeks.
DaysOfWeeks(n, weekdays) == {d \in 0..(n - 1) : d % 7 \in weekdays}

AllCapabilities == {IS_IN_SCHOOL, CAN_OPEN, CAN_CLOSE}

\* n days of four periods without demand, day `long` (if any) of five.
Calendar(n, long) ==
    [d \in 1..n |-> IF d - 1 = long THEN DemandDay(5, 0, 0) ELSE DemandDay(4, 0, 0)]

\* One week.  The second employee is the only opener and closer; the first
\* has any contract hours and shift cap.
HoursScenarios ==
    { [ roster |-> << Employee(1, h[1], h[2], ms, {IS_IN_SCHOOL}, None, <<>>, <<>>),
                      Employee(2, 24, 29, 7, AllCapabilities, None, <<>>, <<>>) >>,
        demands |-> Calendar(7, 2),
        start_day |-> 0, seed |-> seed ] :
      h \in {<<8, None>>, <<8, 12>>, <<4, 9>>, <<16, 29>>},
      ms \in {None, 1, 2}, seed \in 0..MaxSeed }

\* One week with any inherited streak of the first employee.
StreakScenarios ==
    { [ roster |-> << Employee(1, 16, 28, 7, {IS_IN_SCHOOL}, streak, <<>>, <<>>),
                      Employee(2, 28, None, 7, AllCapabilities, None, <<>>, <<>>) >>,
        demands |-> Calendar(7, -1),
        start_day |-> 0, seed |-> 0 ] :
      streak \in 0..MAXIMUM_CONSECUTIVE_WORKDAYS }

\* Nine days: the second employee works the whole first week and is away on
\* day 7, where the first must open and close.
LongStreakScenarios ==
    { [ roster |-> << Employee(1, 20, 28, 7, AllCapabilities, streak, <<>>, <<>>),
                      Employee(2, 28, None, 7, AllCapabilities, None, <<>>,
                               UnavailableOn({7})) >>,
        demands |-> Calendar(9, -1),
        start_day |-> 0, seed |-> 0 ] :
      streak \in 0..MAXIMUM_CONSECUTIVE_WORKDAYS }

WeekendConfigs ==
    { <<>>, [single |-> <<0>>], [groups |-> << <<1, 0>> >>],
      [single |-> <<>>, groups |-> <<>>], [single |-> <<1>>],
      [single |-> <<0>>, groups |-> << <<1, 0, 1>> >>],
      [groups |-> << <<1, 0, 1>> >>] }

\* One week from any weekday, with the first employee's required weekends.
WeekendScenarios ==
    { [ roster |-> << Employee(1, 8, 12, None, {IS_IN_SCHOOL}, None, wc, <<>>),
                      Employee(2, 28, None, 7, AllCapabilities, None, <<>>, <<>>) >>,
        demands |-> Calendar(7, -1),
        start_day |-> sd, seed |-> 0 ] :
      sd \in 0..6, wc \in WeekendConfigs }

\* Several weeks from a Monday.  The second employee is away on the first
\* day of each week and works the six others; the first must open and close
\* on those first days and is away from Tuesday to Thursday.
BlockScenarios ==
    { [ roster |-> << Employee(1, h[1], h[2], None, AllCapabilities, None, wc,
                               UnavailableOn(DaysOfWeeks(MaxDays, {1, 2, 3}))),
                      Employee(2, 24, 48, MaxDays, AllCapabilities, None, <<>>,
                               UnavailableOn(DaysOfWeeks(MaxDays, {0}))) >>,
        demands |-> Calendar(MaxDays, -1),
        start_day |-> 0, seed |-> 0 ] :
      h \in {<<8, None>>, <<8, 12>>},
      wc \in {<<>>, [single |-> <<0>>], [single |-> <<0>>, groups |-> << <<1, 0, 1>> >>],
              [groups |-> << <<1, 0, 1>> >>]} }

\* One short day with any capabilities of two employees: the first in school
\* or not (then without candidate shifts on so short a day), the second
\* possibly away in the last period.
CapabilityScenarios ==
    { [ roster |-> << Employee(1, 0, None, None, school \cup fa, None, <<>>, <<>>),
                      Employee(2, 0, None, None, {IS_IN_SCHOOL} \cup fb, None,
                               <<>>, pref) >>,
        demands |-> << DemandDay(n, 0, v) >>,
        start_day |-> None, seed |-> 0 ] :
      n \in 4..MaxPeriods, fa \in OpenClose, fb \in OpenClose,
      school \in {{}, {IS_IN_SCHOOL}}, v \in 0..MaxDemand,
      pref \in {<<>>} \cup {(0 :> (m :> UNAVAILABLE)) : m \in {MaxPeriods - 1}} }

\* One day of n periods, each demanding v, and one employee who can open and
\* close and is due n periods, in school or not.
SmallestScenarios ==
    { [ roster |-> << Employee(1, n, n, None, school \cup {CAN_OPEN, CAN_CLOSE},
                               None, <<>>, <<>>) >>,
        demands |-> << [p \in 1..n |-> v] >>,
        start_day |-> None, seed |-> seed ] :
      n \in 2..MaxPeriods, school \in {{}, {IS_IN_SCHOOL}}, v \in 1..MaxDemand,
      seed \in 0..MaxSeed }

\* The ids met in the roster, the employees carrying them (two of each id,
\* told apart by their hours), the arguments of add, and the generators:
\* the lowest id for no, all but one or all of the draws, then the lowest or
\* the highest id.
MaxIds == 2
RosterIds == {ID_LOWER_BOUND + i : i \in 0..(MaxIds - 1)} \cup {ID_UPPER_BOUND}
Applicants ==
    {Employee(new_id, h, None, None, {}, None, <<>>, <<>>) :
        new_id \in RosterIds, h \in 0..1}
Arguments ==
    [class : {"Employee"}, employee : Applicants]
        \cup [class : {"str"}, employee : {no_employee}]
Streams ==
    [first : {ID_LOWER_BOUND},
     collisions : {0, maximum_iterations - 1, maximum_iterations},
     then : {ID_LOWER_BOUND, ID_UPPER_BOUND}]

\* The weights a caller may pass, in hundredths: none, an empty dictionary,
\* or the four keys with any of a few values.
WeightValues == {0, 25, 50, 100}
WeightArguments ==
    {NotGiven, Given(<<>>)}
        \cup {Given(w) : w \in [preference : WeightValues, day_pairs_off : WeightValues,
                                weekends_off : WeightValues,
                                excess_workforce : WeightValues]}

\* The start intervals a caller may pass.
MaxInterval == 2
IntervalArguments == {None} \cup 1..MaxInterval

\* Two days, the first of any length up to one period beyond the longest
\* shift, and one employee, in school or not, who marked no period, one
\* period in any way, or one period and the last as unavailable.
MaxShiftPeriods == 17
MarkedDays(n) ==
    {<<>>}
        \cup {(0 :> (m :> flag)) :
                 m \in 0..(n - 1), flag \in {NORMAL, UNAVAILABLE, UNDESIRABLE}}
        \cup {(0 :> ((m :> UNAVAILABLE) @@ ((n - 1) :> UNAVAILABLE))) :
                 m \in 0..(n - 2)}
ShiftScenarios ==
    UNION { { [ roster |-> << Employee(1, 0, None, None, school, None, <<>>, pref) >>,
                demands |-> << [p \in 1..n |-> 0], [p \in 1..second |-> 0] >>,
                start_day |-> None, seed |-> 0 ] :
              school \in {{}, {IS_IN_SCHOOL}}, second \in {0, MINIMUM_SHIFT_IN_PERIODS},
              pref \in MarkedDays(n) } :
            n \in 0..MaxShiftPeriods }

\* One day too short for a full shift, or for any: two openers and closers,
\* each in school or not, and a demand in the first or last period.
ShortDayScenarios ==
    { [ roster |-> << Employee(1, 0, None, None, sa \cup {CAN_OPEN, CAN_CLOSE},
                               None, <<>>, <<>>),
                      Employee(2, 0, None, None, sb \cup {CAN_OPEN, CAN_CLOSE},
                               None, <<>>, <<>>) >>,
        demands |-> << DemandDay(n, q, v) >>,
        start_day |-> None, seed |-> 0 ] :
      n \in 2..MaxPeriods, sa \in {{}, {IS_IN_SCHOOL}}, sb \in {{}, {IS_IN_SCHOOL}},
      q \in {0, 1}, v \in 0..MaxDemand }

\* Employees.create_random_employee, the weekends configuration.  The two
\* comparisons of random.random() with RANDOM_CHANCES['weekend'] are the
\* inputs wants_single and group_draws[k] # 0; single_state is the state
\* random.choice draws the single weekend from and group_draws[k] the
\* result of random.choice((1, 2)) for the k-th group.
random_weekends(demands, startday, wants_single, single_state, group_draws) ==
    LET s == IF startday = WEEKDAY_SUN THEN 1 ELSE 0
        weekend_range == PyRange(0, (Len(demands) \div 7) - s, 1)
        single_part == IF wants_single
                       THEN "single" :> << random_choice(weekend_range, single_state) >>
                       ELSE <<>>
        week_count == Len(demands) \div 7
        weekend_list == PyRange(0, week_count, 1)
        slice_length == 5
        starts == PyRange(0, Len(weekend_list), slice_length)
        groups == [k \in 1..Len(starts) |-> PySlice(weekend_list, starts[k], slice_length)]
        drawn == Flatten([k \in 1..Len(groups) |->
                     IF group_draws[k] # 0
                     THEN << << group_draws[k] >> \o groups[k] >> ELSE <<>>])
    IN  single_part @@ ("groups" :> (IF Len(demands) > 3 * 7 THEN drawn ELSE <<>>))

\* random.choice(weekend_range) raises IndexError on an empty range, and
\* create_random_employee returns no employee.
random_weekends_raises(demands, startday, wants_single) ==
    wants_single /\ (Len(demands) \div 7) - (IF startday = WEEKDAY_SUN THEN 1 ELSE 0) <= 0

\* Employees.create_random_employee, the contract: the hours and the shift
\* cap for a contract type, min_state and max_state being the states the two
\* calls of random.choice draw the part-time hours from.
FULLTIME == "FULLTIME"
PARTTIME == "PARTTIME"
contract_hours(contract_type, min_state, max_state, fixed_hours) ==
    LET drawn_min == IF contract_type = FULLTIME THEN 38 * PERIODS_PER_HOUR
                     ELSE random_choice(PyRange(15 * PERIODS_PER_HOUR,
                                                30 * PERIODS_PER_HOUR, 2), min_state)
        max_hours == IF contract_type = FULLTIME
                     THEN (IF fixed_hours THEN 38 ELSE 40) * PERIODS_PER_HOUR
                     ELSE random_choice(PyRange(drawn_min, 30 * PERIODS_PER_HOUR, 2),
                                        max_state)
        min_hours == IF fixed_hours THEN max_hours ELSE drawn_min
        max_shifts == IF max_hours < 20 * PERIODS_PER_HOUR THEN 4
                      ELSE IF max_hours < 15 * PERIODS_PER_HOUR THEN 3
                      ELSE None
    IN  [min_hours |-> min_hours, max_hours |-> max_hours, max_shifts |-> max_shifts]

\* Employees.create_random_employee for the draws `draw` of the random
\* module: the id generate_employee_id returns (None when it fails), the
\* contract, and whether seniority is drawn.  The draws for the flags, the
\* single weekend, the groups and the preferences are those that give none,
\* and the streak is 0.  No employee is returned when the id is None.
create_random_employee(demands, fixed_hours, startday, draw) ==
    LET groups == (Len(PyRange(0, Len(demands) \div 7, 1)) + 4) \div 5
    IN  CHOOSE new_employee \in
            { [ returned |-> draw.random_id # None,
                seniority |-> IF draw.senior THEN 1 ELSE 0,
                employee |-> Employee(draw.random_id, hours.min_hours, hours.max_hours,
                                      hours.max_shifts, {}, 0, weekends, <<>>) ] :
              hours \in {contract_hours(draw.contract_type, draw.min_state,
                                        draw.max_state, fixed_hours)},
              weekends \in {random_weekends(demands, startday, FALSE, 0,
                                            [k \in 1..groups |-> 0])} } : TRUE

\* sum([sum(x) for x in work_site_demands])
RECURSIVE sum_of_demands(_)
sum_of_demands(demands) ==
    IF demands = <<>> THEN 0
    ELSE LET day == Head(demands)
             sum_day == IF day = <<>> THEN 0
                        ELSE sum_values(day, DOMAIN day)
         IN  sum_day + sum_of_demands(Tail(demands))

\* hours > total_weekly_hours and hours >= total_weekly_hours, where
\* total_weekly_hours = sum / (len(work_site_demands) / 7): the quotient is
\* compared by cross-multiplication.
above_weekly_hours(hours, demands) == hours * Len(demands) > 7 * sum_of_demands(demands)
reaches_weekly_hours(hours, demands) == hours * Len(demands) >= 7 * sum_of_demands(demands)

\* The local variables of create_dummy_employees before its loop, for a call
\* with the given count whose draws come from `generator`.
dummy_call(count_of_employees, fixed_hours, generator) ==
    [ op |-> "create_dummy_employees",
      count_of_employees |-> count_of_employees,
      fixed_hours |-> fixed_hours,
      fulfill_hours |-> (count_of_employees = None \/ count_of_employees = 0),
      generator |-> generator,
      i |-> 0,
      broke |-> FALSE,
      employee_hours_currently |-> 0,
      seniors_created |-> 0,
      extras |-> 0,
      needed_extras |-> 0 ]

\* A faulty loop body: an employee beyond the demand is never counted.
dummy_iteration_without_extras(locals, new_employee, demands) ==
    LET hours == locals.employee_hours_currently
                    + (new_employee.employee.min_hours
                       + new_employee.employee.max_hours) \div 2
        needed_extras == IF locals.i % 15 = 0 THEN locals.needed_extras + 1
                         ELSE locals.needed_extras
        broke == locals.extras >= needed_extras
    IN  [locals EXCEPT !.i = IF broke THEN @ ELSE @ + 1,
                       !.broke = broke,
                       !.employee_hours_currently = hours,
                       !.seniors_created = @ + new_employee.seniority,
                       !.needed_extras = needed_extras]

\* One pass of the loop of create_dummy_employees after the employee was
\* created and stored: the local variables after it.  The contract hours
\* are even, so their mean is exact.
dummy_iteration(locals, new_employee, demands) ==
    LET hours == locals.employee_hours_currently
                    + (new_employee.employee.min_hours
                       + new_employee.employee.max_hours) \div 2
        needed_extras == IF locals.i % 15 = 0 THEN locals.needed_extras + 1
                         ELSE locals.needed_extras
        broke == locals.extras >= needed_extras
    IN  [locals EXCEPT !.i = IF broke THEN @ ELSE @ + 1,
                       !.broke = broke,
                       !.employee_hours_currently = hours,
                       !.seniors_created = @ + new_employee.seniority,
                       !.needed_extras = needed_extras,
                       !.extras = IF ~broke /\ above_weekly_hours(hours, demands)
                                     /\ locals.fulfill_hours
                                  THEN @ + 1 ELSE @]

\* The draws of the random module at pass i of the loop: the generator
\* yields the contract `first` for `switch` passes and `then` from there on,
\* draws seniority at pass senior_at, and generate_employee_id fails at pass
\* id_fails_at and returns a fresh id at every other.
generator_draw(generator, i) ==
    LET contract == IF i < generator.switch THEN generator.first ELSE generator.then
    IN  [ random_id |-> IF i = generator.id_fails_at THEN None ELSE ID_LOWER_BOUND + i,
          contract_type |-> contract.contract_type,
          min_state |-> contract.min_state,
          max_state |-> contract.max_state,
          senior |-> i = generator.senior_at ]

\* The most passes of the loop of create_dummy_employees that are followed.
MaxEmployees == 20

\* One pass of the loop of create_dummy_employees: range(sys.maxsize) does
\* not end when no count is given.  Without an id no employee is created
\* and the loop breaks.
CreateDummyEmployee ==
    /\ pc = "dummies"
    /\ ~call.broke
    /\ call.fulfill_hours \/ call.i < call.count_of_employees
    /\ call.i < MaxEmployees
    /\ \E new_employee \in {create_random_employee(work_site_demands, call.fixed_hours,
                                start_day, generator_draw(call.generator, call.i))} :
           IF ~new_employee.returned
           THEN /\ call' = [call EXCEPT !.broke = TRUE]
                /\ UNCHANGED employee_list
           ELSE /\ employee_list' =
                       (new_employee.employee.id :>
                           (("seniority" :> new_employee.seniority)
                               @@ new_employee.employee))
                       @@ employee_list
                /\ call' = dummy_iteration(call, new_employee, work_site_demands)
    /\ UNCHANGED <<pc, employees, work_site_demands, start_day, weights,
                   weights_argument, shift_start_interval,
                   random_state, decision_variables, problem, raised, status,
                   values, earlier, returned>>

\* The end of create_dummy_employees: without a senior, a random employee
\* becomes one (random.choice raises IndexError on an empty list), and the
\* comparison of the hours with the weekly demand is returned.
ReturnDummyEmployees ==
    /\ pc = "dummies"
    /\ call.broke \/ (~call.fulfill_hours /\ call.i >= call.count_of_employees)
    /\ IF call.seniors_created = 0 /\ DOMAIN employee_list = {}
       THEN /\ pc' = "raised"
            /\ raised' = "IndexError"
            /\ UNCHANGED <<employee_list, returned, random_state>>
       ELSE /\ pc' = "returned"
            /\ returned' = reaches_weekly_hours(call.employee_hours_currently,
                                                work_site_demands)
            /\ IF call.seniors_created = 0
               THEN LET items == PyRange(ID_LOWER_BOUND,
                                         ID_LOWER_BOUND + Cardinality(DOMAIN employee_list), 1)
                        random_employee == random_choice(items, random_state)
                    IN  /\ employee_list' =
                               [employee_list EXCEPT ![random_employee].seniority = 1]
                        /\ random_state' = random_advance(items, random_state)
               ELSE UNCHANGED <<employee_list, random_state>>
            /\ UNCHANGED raised
    /\ UNCHANGED <<employees, work_site_demands, start_day, weights,
                   weights_argument, shift_start_interval,
                   decision_variables, problem, status,
                   values, earlier, call>>

\* The entry into create_dummy_employees on a new Employees object, up to
\* its loop.
CallCreateDummyEmployees(count_of_employees, demands, fixed_hours, start_day_arg, generator) ==
    /\ pc = "roster"
    /\ call = no_call
    /\ employee_list = <<>>
    /\ pc' = "dummies"
    /\ work_site_demands' = demands
    /\ start_day' = start_day_arg
    /\ call' = dummy_call(count_of_employees, fixed_hours, generator)
    /\ UNCHANGED <<employees, weights, weights_argument, shift_start_interval,
                   random_state, decision_variables, problem, raised, status,
                   values, earlier, employee_list, returned>>

\* The contracts the generator yields: full time, and part time with the
\* lowest hours, the widest range and the highest hours.
DummyContracts ==
    { [contract_type |-> FULLTIME, min_state |-> 0, max_state |-> 0],
      [contract_type |-> PARTTIME, min_state |-> 0, max_state |-> 0],
      [contract_type |-> PARTTIME, min_state |-> 0, max_state |-> 14],
      [contract_type |-> PARTTIME, min_state |-> 14, max_state |-> 0] }

\* The generators: one contract throughout, or one for the first two
\* passes and another from there on; seniority drawn never or at the first
\* pass; generate_employee_id failing never or, under one contract, at the
\* first pass or at the fourth.
Generators ==
    { g \in [first : DummyContracts, switch : {0, 2}, then : DummyContracts,
             senior_at : {None, 0}, id_fails_at : {None, 0, 3}] :
        /\ (g.first = g.then) = (g.switch = 0)
        /\ g.id_fails_at # None => g.switch = 0 }

\* Schedules of n days with a demand of v in the one period of every day
\* and u more on the first day.
DummyDemands(n, v, u) == [d \in 1..n |-> << IF d = 1 THEN v + u ELSE v >>]

\* The calls of create_dummy_employees: without a count on one week or ten
\* days of any of a few demands, with the count 0, and with any count up to
\* MaxCount.
MaxCount == 17
DummyCalls ==
    { [count_of_employees |-> None, demands |-> DummyDemands(n, v, u),
       fixed_hours |-> f, generator |-> g] :
      n \in {7, 10}, v \in {0, 11, 65}, u \in {0, 1},
      f \in BOOLEAN, g \in Generators }
    \cup
    { [count_of_employees |-> c, demands |-> DummyDemands(7, v, 0),
       fixed_hours |-> FALSE, generator |-> g] :
      c \in 0..MaxCount, v \in {0, 65},
      g \in {x \in Generators : x.switch = 0} }

\* The longest schedule, in weeks, and the largest state of the random
\* module create_objective starts from.
MaxWeeks == 4
MaxRewardSeed == 11

\* Whole weeks from any weekday; the weekends configuration of the one
\* employee is any that create_random_employee can generate for the
\* schedule.
GeneratedScenarios ==
    { [ roster |-> << Employee(1, 0, None, None, {IS_IN_SCHOOL}, None,
                               random_weekends(Calendar(7 * c[1], -1), c[2], c[3], c[4], c[5]),
                               <<>>) >>,
        demands |-> Calendar(7 * c[1], -1),
        start_day |-> c[2], seed |-> 0 ] :
      c \in { t \in UNION { {weeks} \X (0..6) \X BOOLEAN \X (0..(MaxWeeks - 1))
                            \X [1..((weeks + 4) \div 5) -> {0, 1, 2}] :
                            weeks \in 1..MaxWeeks } :
              /\ ~random_weekends_raises(Calendar(7 * t[1], -1), t[2], t[3])
              /\ (~t[3] => t[4] = 0) } }

\* Schedules of any length from any weekday, for one employee without a
\* weekends configuration.
LengthScenarios ==
    { [ roster |-> << Employee(1, 0, None, None, {IS_IN_SCHOOL}, None, <<>>, <<>>) >>,
        demands |-> Calendar(n, -1),
        start_day |-> sd, seed |-> seed ] :
      n \in 1..(7 * MaxWeeks), sd \in 0..6, seed \in 0..MaxRewardSeed }

ScenarioInit(S) ==
    \E sc \in S :
        SchedulerInit(sc.roster, sc.demands, NotGiven, sc.start_day, None, sc.seed)

\* One run of the scheduler on any of the inputs above.
Init ==
    ScenarioInit(DayScenarios \cup HoursScenarios \cup StreakScenarios
                 \cup LongStreakScenarios \cup WeekendScenarios \cup BlockScenarios)

Spec == Init /\ [][Next]_vars

\* The runs on one day.
InitDay == ScenarioInit(DayScenarios)
SpecDay == InitDay /\ [][Next]_vars

\* The runs over whole weeks.
InitWeeks == ScenarioInit(HoursScenarios \cup BlockScenarios)
SpecWeeks == InitWeeks /\ [][Next]_vars

\* The runs with an inherited streak.
InitStreak == ScenarioInit(StreakScenarios \cup LongStreakScenarios)
SpecStreak == InitStreak /\ [][Next]_vars

\* The runs with required weekends.
InitWeekend == ScenarioInit(WeekendScenarios \cup BlockScenarios)
SpecWeekend == InitWeekend /\ [][Next]_vars

\* The builds of one-week problems, repeated.
InitBuild == ScenarioInit(HoursScenarios \cup StreakScenarios)
SpecBuild == InitBuild /\ [][NextBuild]_vars

\* The runs on one day with any capabilities.
InitCapability == ScenarioInit(CapabilityScenarios)
SpecCapability == InitCapability /\ [][Next]_vars

\* The runs on one day with one employee.
InitSmallest == ScenarioInit(SmallestScenarios)
SpecSmallest == InitSmallest /\ [][Next]_vars

\* Any calls on one Employees object.
NextRoster ==
    \/ \E argument \in Arguments : Add(argument)
    \/ \E employee \in Applicants : Remove(employee)
    \/ \E stream \in Streams : GenerateEmployeeId(stream)

SpecRoster == EmployeesInit /\ [][NextRoster]_vars

\* The runs of one small scenario under any weights.
InitWeights ==
    \E sc \in {x \in SmallestScenarios : x.seed = 0 /\ Len(x.demands[1]) = 4},
       weights_arg \in WeightArguments :
        SchedulerInit(sc.roster, sc.demands, weights_arg, sc.start_day, None, sc.seed)
SpecWeights == InitWeights /\ [][Next]_vars

\* The runs on one day with one employee under any start interval.
InitInterval ==
    \E sc \in SmallestScenarios, shift_start_interval_arg \in IntervalArguments :
        SchedulerInit(sc.roster, sc.demands, NotGiven, sc.start_day,
                      shift_start_interval_arg, sc.seed)
SpecInterval == InitInterval /\ [][Next]_vars

\* The candidate shifts of one employee on any day.
InitShifts == ScenarioInit(ShiftScenarios)
NextShifts == SetEmployeeShifts
SpecShifts == InitShifts /\ [][NextShifts]_vars

\* The runs on one short day.
InitShortDay == ScenarioInit(ShortDayScenarios)
SpecShortDay == InitShortDay /\ [][Next]_vars

\* Scheduler.create_lp_problem alone: the problem is built, not solved.
NextConstruct ==
    \/ SetEmployeeShifts
    \/ CreateDecisionVariables
    \/ CreateObjective
    \/ CreateConstraints

\* The builds for generated employees and for schedules of any length.
InitConstruct == ScenarioInit(GeneratedScenarios \cup LengthScenarios)
SpecConstruct == InitConstruct /\ [][NextConstruct]_vars

\* Any call of create_dummy_employees on a new Employees object.  The loop
\* and the return are steps of one sequential call, which the interpreter
\* keeps running once it is made: weak fairness of both.
NextDummies ==
    \/ \E c \in DummyCalls :
           CallCreateDummyEmployees(c.count_of_employees, c.demands, c.fixed_hours,
                                    0, c.generator)
    \/ CreateDummyEmployee
    \/ ReturnDummyEmployees
SpecDummies ==
    /\ EmployeesInit
    /\ [][NextDummies]_vars
    /\ WF_vars(CreateDummyEmployee)
    /\ WF_vars(ReturnDummyEmployees)

\* --------------------------------------------------------------- properties
\* The solver returned an assignment that satisfies the built constraints.
Solved == pc \in {"report", "done"} /\ status = LpStatusOptimal

\* create_constraints has returned or raised.
Built == pc \in {"solve", "report", "done", "raised"}

Staff == 1..Len(employees)
Days == 0..(Len(work_site_demands) - 1)
Periods(d) == 0..(Len(work_site_demands[d + 1]) - 1)

\* The candidate shifts (by position) of employee e on day d whose variable
\* is 1, and the periods of one of them.
assigned(e, d) ==
    {k \in 1..Len(employees[e].shifts[d + 1]) :
        values[XVar(employees[e].id, d, k - 1)] = 1}
shift_periods(e, d, k) ==
    {employees[e].shifts[d + 1][k][i] : i \in 1..Len(employees[e].shifts[d + 1][k])}
worked(e, d) == assigned(e, d) # {}
day_off(e, d) == values[DVar(employees[e].id, d)]

\* The (employee, shift) pairs assigned on day d whose shift contains p.
covering(d, p) ==
    {a \in UNION {{<<e, k>> : k \in assigned(e, d)} : e \in Staff} :
        p \in shift_periods(a[1], d, a[2])}

\* C1 (coverage): in a satisfying assignment every period of every day is
\* covered by exactly demand + y assigned shifts, y >= 0, hence by at least
\* its demand.
C1_Coverage ==
    Solved =>
        \A d \in Days : \A p \in Periods(d) :
            /\ values[YVar(d, p)] >= 0
            /\ Cardinality(covering(d, p))
                   = work_site_demands[d + 1][p + 1] + values[YVar(d, p)]
            /\ Cardinality(covering(d, p)) >= work_site_demands[d + 1][p + 1]

\* C1 witness: a solved run with a demanded period that is overstaffed.
C1_Witness ==
    /\ Solved
    /\ \E d \in Days : \E p \in Periods(d) :
           /\ work_site_demands[d + 1][p + 1] > 0
           /\ values[YVar(d, p)] > 0
           /\ Cardinality(covering(d, p)) > 1

\* C2 (one shift or off): in a satisfying assignment the number of assigned
\* shifts of an employee on a day plus the day-off variable is exactly 1.
C2_OneShiftOrOff ==
    Solved =>
        \A e \in Staff : \A d \in Days :
            Cardinality(assigned(e, d)) + day_off(e, d) = 1

\* C2 witness: a solved run in which one employee works one of several
\* candidate shifts while another has the day off.
C2_Witness ==
    /\ Solved
    /\ \E e, f \in Staff : \E d \in Days :
           /\ Len(employees[e].shifts[d + 1]) > 1
           /\ Cardinality(assigned(e, d)) = 1 /\ day_off(e, d) = 0
           /\ Len(employees[f].shifts[d + 1]) > 1
           /\ assigned(f, d) = {} /\ day_off(f, d) = 1

\* The last days of the complete 7-day blocks, and what an employee is
\* assigned in the block ending on day d.
Blocks == {d \in Days : d % 7 = 6}
block_assignments(e, d) ==
    UNION {{<<dd, k>> : k \in assigned(e, dd)} : dd \in (d - 6)..d}
block_shifts(e, d) == Cardinality(block_assignments(e, d))
block_periods(e, d) ==
    Cardinality(UNION {{<<a[1], a[2], q>> : q \in shift_periods(e, a[1], a[2])} :
                       a \in block_assignments(e, d)})

\* C3 (weekly hours): in a satisfying assignment the periods an employee
\* works in each complete 7-day block, counted for that block alone, lie in
\* [min_hours, max_hours] and equal min_hours when the two are equal.
C3_WeeklyHours ==
    Solved =>
        \A e \in Staff : \A d \in Blocks :
            /\ block_periods(e, d) >= employees[e].min_hours
            /\ block_periods(e, d) <= employees[e].max_hours
            /\ employees[e].min_hours = employees[e].max_hours
                   => block_periods(e, d) = employees[e].min_hours

\* C3 witness: a solved run of two blocks in which an employee works the
\* minimum in one block and the maximum in the next, more than max_hours in
\* all.
C3_Witness ==
    /\ Solved
    /\ \E e \in Staff : \E d \in Blocks :
           /\ d + 7 \in Blocks
           /\ employees[e].min_hours < employees[e].max_hours
           /\ block_periods(e, d) = employees[e].min_hours
           /\ block_periods(e, d + 7) = employees[e].max_hours

\* C4 (weekly shift count): in a satisfying assignment an employee has at
\* most max_shifts shifts in each complete 7-day block, and max_shifts is 5
\* for an employee constructed without one.
C4_WeeklyShiftCount ==
    /\ Employee(1, 0, None, None, {}, None, <<>>, <<>>).max_shifts = 5
    /\ Solved =>
           \A e \in Staff : \A d \in Blocks :
               block_shifts(e, d) <= employees[e].max_shifts

\* C4 witness: a solved run in which an employee with the default cap works
\* 5 shifts in a block although max_hours leaves room for a sixth.
C4_Witness ==
    /\ Solved
    /\ \E e \in Staff : \E d \in Blocks :
           /\ employees[e].max_shifts = DEFAULT_WEEKLY_MAXIMUM_SHIFTS
           /\ block_shifts(e, d) = employees[e].max_shifts
           /\ block_periods(e, d) + 2 * PERIODS_PER_HOUR <= employees[e].max_hours

\* C5 (consecutive-day cap): in a satisfying assignment, for an employee
\* with inherited streak s in 0..7, every day d >= 7 - s has a day off among
\* the days max(0, d - 7)..d, and no run of worked days, the s earlier days
\* counted when it starts on day 0, is longer than 7; s = 7 forces day 0
\* off and s = 6 forces day 0 or day 1 off.
C5_StreakCap ==
    Solved =>
        \A e \in Staff :
            LET s == employees[e].current_workday_streak
                inherited(i) == IF i = 0 THEN s ELSE 0
            IN  s \in 0..7 =>
                /\ \A d \in Days :
                       d >= 7 - s =>
                           \E dd \in (IF d - 7 < 0 THEN 0 ELSE d - 7)..d :
                               ~ worked(e, dd)
                /\ \A i \in Days : \A j \in Days :
                       (i <= j /\ \A dd \in i..j : worked(e, dd))
                           => (j - i + 1) + inherited(i) <= 7
                /\ s = 7 => ~ worked(e, 0)
                /\ (s = 6 /\ 1 \in Days) => (~ worked(e, 0) \/ ~ worked(e, 1))

\* C5 witness: a solved run in which an employee who inherited a streak of
\* 6 works day 0 and has day 1 off.
C5_Witness ==
    /\ Solved
    /\ \E e \in Staff :
           /\ employees[e].current_workday_streak = 6
           /\ worked(e, 0)
           /\ ~ worked(e, 1)

\* C6 (opening and closing capability): in a satisfying assignment every day
\* has an employee with CAN_OPEN assigned a shift containing period 0 and an
\* employee with CAN_CLOSE assigned a shift containing the day's last period.
C6_OpenerAndCloser ==
    Solved =>
        \A d \in Days :
            /\ \E e \in Staff :
                   /\ CAN_OPEN \in employees[e].special_properties
                   /\ \E k \in assigned(e, d) : 0 \in shift_periods(e, d, k)
            /\ \E e \in Staff :
                   /\ CAN_CLOSE \in employees[e].special_properties
                   /\ \E k \in assigned(e, d) :
                          Len(work_site_demands[d + 1]) - 1 \in shift_periods(e, d, k)

\* C6 witness: a solved run on a day that one employee can only open and
\* the other can only close, each working a shift that leaves out the
\* period the other must cover.
C6_Witness ==
    /\ Solved
    /\ \E e, f \in Staff : \E d \in Days :
           /\ CAN_CLOSE \notin employees[e].special_properties
           /\ CAN_OPEN \notin employees[f].special_properties
           /\ \E k \in assigned(e, d) :
                  Len(work_site_demands[d + 1]) - 1 \notin shift_periods(e, d, k)
           /\ \E k \in assigned(f, d) : 0 \notin shift_periods(f, d, k)

\* The periods of day d that employee e marked UNAVAILABLE.
unavailable(e, d) ==
    IF d \in DOMAIN employees[e].preferences
    THEN {q \in DOMAIN employees[e].preferences[d] :
              employees[e].preferences[d][q] = UNAVAILABLE}
    ELSE {}

\* C7 (no unavailable period): once the candidate shifts are set, none of an
\* employee's candidate shifts of a day contains a period marked UNAVAILABLE
\* for that day, and in a satisfying assignment no assigned shift does.
C7_NoUnavailablePeriod ==
    /\ pc # "shifts" =>
           \A e \in Staff : \A d \in Days : \A q \in unavailable(e, d) :
               \A k \in 1..Len(employees[e].shifts[d + 1]) :
                   q \notin shift_periods(e, d, k)
    /\ Solved =>
           \A e \in Staff : \A d \in Days : \A q \in unavailable(e, d) :
               \A k \in assigned(e, d) : q \notin shift_periods(e, d, k)

\* C7 witness: a solved run in which an employee works a day on which the
\* employee marked a period of the day unavailable.
C7_Witness ==
    /\ Solved
    /\ \E e \in Staff : \E d \in Days :
           /\ unavailable(e, d) \cap Periods(d) # {}
           /\ worked(e, d)

\* The weekends of employee e (by position) and the values of the variables
\* of weekend j: its own and those of its day pairs.
Weekends(e) == 1..Len(decision_variables.weekends[employees[e].id])
weekend_off(e, j) == values[decision_variables.weekends[employees[e].id][j].var]
weekend_pair_off(e, j, i) ==
    values[decision_variables.pairs[employees[e].id]
               [decision_variables.weekends[employees[e].id][j].day_indices[i] + 1]]

\* C8 (weekend variable is a conjunction): in a satisfying assignment the
\* variable of a weekend that owns two day pairs is 1 exactly when both of
\* its day-pair variables are 1.
C8_WeekendIsConjunction ==
    Solved =>
        \A e \in Staff : \A j \in Weekends(e) :
            Len(decision_variables.weekends[employees[e].id][j].day_indices) = 2 =>
                (weekend_off(e, j) = 1
                     <=> (weekend_pair_off(e, j, 1) = 1 /\ weekend_pair_off(e, j, 2) = 1))

\* The constraints of the problem over weekend variables of employee e alone.
weekend_only_constraints(e) ==
    {k \in 1..Len(problem.constraints) :
        /\ problem.constraints[k].terms # <<>>
        /\ \A t \in 1..Len(problem.constraints[k].terms) :
               /\ problem.constraints[k].terms[t][2][1] = "w"
               /\ problem.constraints[k].terms[t][2][2] = employees[e].id}

\* C9 (required weekends): in a satisfying assignment every weekend listed
\* in an employee's weekends_config['single'] has its variable at 1 and
\* every group (k, indices) of weekends_config['groups'] has at least k of
\* its weekend variables at 1; an employee without 'single' gets no
\* equality on a weekend variable, one without 'groups' no lower limit on
\* weekend variables, and the missing key raises nothing.
C9_RequiredWeekends ==
    /\ Solved =>
           \A e \in Staff :
               LET config == employees[e].weekends_config
                   off(j) == values[WVar(employees[e].id, j)]
               IN  /\ "single" \in DOMAIN config =>
                          \A i \in 1..Len(config["single"]) : off(config["single"][i]) = 1
                   /\ "groups" \in DOMAIN config =>
                          \A g \in 1..Len(config["groups"]) :
                              Cardinality({i \in 2..Len(config["groups"][g]) :
                                               off(config["groups"][g][i]) = 1})
                                  >= config["groups"][g][1]
    /\ Built =>
           \A e \in Staff :
               /\ "single" \notin DOMAIN employees[e].weekends_config =>
                      \A k \in weekend_only_constraints(e) :
                          problem.constraints[k].sense # "=="
               /\ "groups" \notin DOMAIN employees[e].weekends_config =>
                      \A k \in weekend_only_constraints(e) :
                          problem.constraints[k].sense # ">="
    /\ raised # "KeyError"

\* C9 witness: a solved run in which an employee with a group (1, [0, 1])
\* has weekend 0 not off and weekend 1 off, next to an employee whose
\* weekends_config has neither key.
C9_Witness ==
    /\ Solved
    /\ \E e, f \in Staff :
           /\ "groups" \in DOMAIN employees[e].weekends_config
           /\ employees[e].weekends_config["groups"] = << <<1, 0, 1>> >>
           /\ values[WVar(employees[e].id, 0)] = 0
           /\ values[WVar(employees[e].id, 1)] = 1
           /\ DOMAIN employees[f].weekends_config = {}

\* C10 (mandatory weekend off): in a schedule that starts on a Monday, in a
\* satisfying assignment every weekend j listed in an employee's
\* weekends_config['single'] has its variable at 1 and its Saturday (day
\* 7j + 5) and its Sunday (day 7j + 6) both off.
C10_MandatoryWeekendOff ==
    (Solved /\ start_day = 0) =>
        \A e \in Staff :
            "single" \in DOMAIN employees[e].weekends_config =>
                \A i \in 1..Len(employees[e].weekends_config["single"]) :
                    LET j == employees[e].weekends_config["single"][i]
                    IN  /\ values[WVar(employees[e].id, j)] = 1
                        /\ day_off(e, 7 * j + WEEKDAY_SAT) = 1
                        /\ day_off(e, 7 * j + WEEKDAY_SUN) = 1

\* Every variable create_decision_variables has created.
created_variables ==
    LET dv == decision_variables
        range(f) == {f[i] : i \in DOMAIN f}
    IN  UNION {UNION {range(dv.shifts[eid][d]) : d \in DOMAIN dv.shifts[eid]} :
               eid \in DOMAIN dv.shifts}
        \cup UNION {range(dv.days[eid]) : eid \in DOMAIN dv.days}
        \cup UNION {range(dv.pairs[eid]) : eid \in DOMAIN dv.pairs}
        \cup UNION {{dv.weekends[eid][j].var : j \in DOMAIN dv.weekends[eid]} :
                    eid \in DOMAIN dv.weekends}
        \cup UNION {range(dv.workforce[d]) : d \in DOMAIN dv.workforce}

\* C11 (name round-trip): for every created variable of the five families,
\* whichever name the library keeps, get_decision_var_ids raises nothing on
\* the name and returns exactly the integers the name was built from.
C11_NameRoundTrip ==
    pc \notin {"shifts", "variables"} =>
        \A var \in created_variables : \A translated \in BOOLEAN :
            LET parsed == get_decision_var_ids(
                              LpVariable_name(lp_var_name(var), translated))
            IN  /\ parsed.raised = ""
                /\ parsed.ids = Tail(var)

\* The elements of a list, whatever their order.
elements(list) == {list[i] : i \in 1..Len(list)}

\* C12 (rebuild idempotence): when a call of create_lp_problem returns on
\* an unchanged roster, demand and configuration, it has built what every
\* earlier call built: the same candidate shifts, the same variables, the
\* same objective terms and the same constraints, whatever their order.
C12_RebuildIdempotent ==
    pc = "solve" =>
        \A i \in 1..Len(earlier) :
            /\ earlier[i].shifts = [e \in 1..Len(employees) |-> employees[e].shifts]
            /\ earlier[i].variables = decision_variables
            /\ elements(earlier[i].problem.objective) = elements(problem.objective)
            /\ elements(earlier[i].problem.constraints) = elements(problem.constraints)

\* Whether some employee holding `flag` has a candidate shift on day d that
\* contains period p.
has_capable_candidate(d, p, flag) ==
    \E e \in Staff :
        /\ flag \in employees[e].special_properties
        /\ \E k \in 1..Len(employees[e].shifts[d + 1]) : p \in shift_periods(e, d, k)

missing_opener_or_closer(d) ==
    \/ ~ has_capable_candidate(d, 0, CAN_OPEN)
    \/ ~ has_capable_candidate(d, Len(work_site_demands[d + 1]) - 1, CAN_CLOSE)

\* C13 (missing opener or closer): when on some day no employee with
\* CAN_OPEN has a candidate shift containing period 0, or none with
\* CAN_CLOSE has one containing the last period, no assignment satisfies
\* the built constraints: the solver reports the problem infeasible,
\* whatever the demand.
C13_MissingCapabilityInfeasible ==
    (pc \in {"report", "done"} /\ \E d \in Days : missing_opener_or_closer(d))
        => (status = LpStatusInfeasible /\ values = <<>>)

\* C13 witness: an infeasible run without demand in which both employees
\* have candidate shifts but none of them can close.
C13_Witness ==
    /\ pc = "report"
    /\ status = LpStatusInfeasible
    /\ \E d \in Days :
           /\ \A p \in Periods(d) : work_site_demands[d + 1][p + 1] = 0
           /\ has_capable_candidate(d, 0, CAN_OPEN)
           /\ ~ has_capable_candidate(d, Len(work_site_demands[d + 1]) - 1, CAN_CLOSE)
           /\ \A e \in Staff : employees[e].shifts[d + 1] # <<>>

\* C14 (empty capability set is a construction error): once the constraints
\* of a run are built, a day whose opening or closing constraint has no
\* eligible (employee, shift) pair has made the build raise, and the run
\* never gets to the solver or the report.
C14_EmptyCapabilityRaises ==
    (/\ pc \in {"solve", "report", "done", "raised"}
     /\ \E d \in Days : missing_opener_or_closer(d))
        => (pc = "raised" /\ raised # "")

\* The value of the objective under the returned assignment, in hundredths.
objective_value == lhs_value(problem.objective, values, 1)

\* C15 (smallest end-to-end scenario): with demand [[1,1]] and one employee
\* out of school who can open and close and is due exactly 2 periods, the
\* enumerator yields the single candidate shift [0,1], the run ends optimal
\* with that shift worked and y = [0,0], and the objective value is the
\* default preference weight, .25.
C15_SmallestScenario ==
    (/\ work_site_demands = << <<1, 1>> >>
     /\ Len(employees) = 1
     /\ IS_IN_SCHOOL \notin employees[1].special_properties
     /\ employees[1].min_hours = 2 /\ employees[1].max_hours = 2)
        => /\ pc # "shifts" => employees[1].shifts = << << <<0, 1>> >> >>
           /\ pc \in {"report", "done"} =>
                  /\ status = LpStatusOptimal
                  /\ assigned(1, 0) = {1}
                  /\ values[YVar(0, 0)] = 0 /\ values[YVar(0, 1)] = 0
                  /\ objective_value = DEFAULT_WEIGHTS.preference

\* C16 (duplicate id rejected): an add of an employee whose id some employee
\* of the roster already has does not report success and leaves the roster
\* as it was.
C16_DuplicateIdRejected ==
    [][(/\ call'.op = "add"
        /\ isinstance(call')
        /\ id_exists(employee_list, call'.employee.id))
           => (returned'.added = FALSE /\ employee_list' = employee_list)]_vars

\* C17 (unique-id generator): generate_employee_id leaves the roster alone,
\* makes at most maximum_iterations draws, and returns either None, after
\* maximum_iterations draws that each met an existing id, or an id of the
\* range that no employee of the roster has.
C17_GeneratedIdUnique ==
    [][call'.op = "generate_employee_id" =>
          /\ employee_list' = employee_list
          /\ returned'.draws \in 1..maximum_iterations
          /\ \A i \in 0..(returned'.draws - 2) :
                 id_exists(employee_list, randint(call'.stream, i))
          /\ \/ /\ returned'.new_id = None
                /\ returned'.draws = maximum_iterations
                /\ id_exists(employee_list,
                             randint(call'.stream, maximum_iterations - 1))
             \/ /\ returned'.new_id \in ID_LOWER_BOUND..ID_UPPER_BOUND
                /\ returned'.new_id = randint(call'.stream, returned'.draws - 1)
                /\ ~ id_exists(employee_list', returned'.new_id)]_vars

\* C17 witness: an id returned at the last permitted draw, after the draws
\* before it all met an employee of the roster.
C17_Witness ==
    /\ call.op = "generate_employee_id"
    /\ returned.draws = maximum_iterations
    /\ returned.new_id # None
    /\ id_exists(employee_list, call.stream.first)
    /\ call.stream.collisions = maximum_iterations - 1

C19_StartIntervalOverride ==
    pc \in {"variables", "objective", "constraints", "solve", "report", "done"} =>
        \A e \in Staff : \A d \in Days :
            LET S == shift_start_interval
                candidates == employees[e].shifts[d + 1]
                minimum == IF IS_IN_SCHOOL \in employees[e].special_properties
                           THEN 2 * PERIODS_PER_HOUR ELSE MINIMUM_SHIFT_IN_PERIODS
            IN  /\ \A k \in 1..Len(candidates) : candidates[k][1] % S = 0
                /\ \A L \in minimum..MAXIMUM_SHIFT_IN_PERIODS :
                   \A s \in 0..(Len(work_site_demands[d + 1]) - L) :
                       (s % S = 0 /\ unavailable(e, d) \cap s..(s + L - 1) = {})
                           => InSeq([i \in 1..L |-> s + i - 1], candidates)

\* The windows [s, s + L) of day d open to employee e: a permitted length,
\* a start at a multiple of the start interval, inside the day, and no period
\* marked UNAVAILABLE.
MIN_SHIFT(e) ==
    IF IS_IN_SCHOOL \in employees[e].special_properties THEN 4 ELSE 8
open_windows(e, d) ==
    { [i \in 1..L |-> s + i - 1] @@ <<>> :
        <<s, L>> \in { w \in (0..Len(work_site_demands[d + 1])) \X (MIN_SHIFT(e)..16) :
                          /\ w[1] % SHIFT_START_INTERVAL = 0
                          /\ w[1] + w[2] <= Len(work_site_demands[d + 1])
                          /\ unavailable(e, d) \cap w[1]..(w[1] + w[2] - 1) = {} } }

\* C20 (shift enumerator exact): once the candidate shifts are set, shifts
\* has one entry per day of the demand, and the entry of a day lists exactly
\* the open windows of that day, each once, all of whose periods are periods
\* of the day.
C20_EnumeratorExact ==
    pc # "shifts" =>
        \A e \in Staff :
            /\ Len(employees[e].shifts) = Len(work_site_demands)
            /\ \A d \in Days :
                   LET candidates == employees[e].shifts[d + 1]
                   IN  /\ elements(candidates) = open_windows(e, d)
                       /\ Len(candidates) = Cardinality(open_windows(e, d))
                       /\ \A k \in 1..Len(candidates) :
                              shift_periods(e, d, k) \subseteq Periods(d)

\* C20 witness: an employee out of school with an unavailable period on a
\* day long enough for the longest shift, which is among the candidates.
C20_Witness ==
    /\ pc = "variables"
    /\ \E e \in Staff : \E d \in Days :
           /\ IS_IN_SCHOOL \notin employees[e].special_properties
           /\ unavailable(e, d) # {}
           /\ \E k \in 1..Len(employees[e].shifts[d + 1]) :
                  Len(employees[e].shifts[d + 1][k]) = MAXIMUM_SHIFT_IN_PERIODS

\* C21 (day-pair variable is a conjunction): once the variables are created
\* every employee has exactly one day-pair variable for every day that has a
\* successor, and in a satisfying assignment that variable is 1 exactly when
\* the day-off variables of the day and of its successor are both 1.
C21_PairIsConjunction ==
    /\ pc \notin {"shifts", "variables"} =>
           \A e \in Staff :
               decision_variables.pairs[employees[e].id]
                   = [d \in 1..(Len(work_site_demands) - 1) |->
                         PVar(employees[e].id, d - 1)]
    /\ Solved =>
           \A e \in Staff : \A d \in Days :
               d + 1 < Len(work_site_demands) =>
                   /\ values[PVar(employees[e].id, d)] \in {0, 1}
                   /\ values[PVar(employees[e].id, d)] = 1
                          <=> (day_off(e, d) = 1 /\ day_off(e, d + 1) = 1)

\* C21 witness: a satisfying assignment with two days off in a row, and
\* with a day off followed by a worked day.
C21_Witness ==
    /\ Solved
    /\ \E e \in Staff : \E d \in Days :
           /\ d + 1 < Len(work_site_demands)
           /\ values[PVar(employees[e].id, d)] = 1
    /\ \E e \in Staff : \E d \in Days :
           /\ d + 1 < Len(work_site_demands)
           /\ day_off(e, d) = 1 /\ day_off(e, d + 1) = 0
           /\ values[PVar(employees[e].id, d)] = 0

\* The weekends of employee e that own a single day-pair index.
half_weekends(e) ==
    {j \in Weekends(e) :
        Len(decision_variables.weekends[employees[e].id][j].day_indices) = 1}

\* C22 (half-weekend handled without failure): when some weekend variable
\* owns a single day-pair index, create_constraints returns without raising,
\* the problem holds the constraint w = p for that weekend and its pair, and
\* in a satisfying assignment the two variables are equal.
C22_HalfWeekendHandled ==
    (Built /\ \E e \in Staff : half_weekends(e) # {}) =>
        /\ pc # "raised" /\ raised = ""
        /\ \A e \in Staff : \A j \in half_weekends(e) :
               LET weekend == decision_variables.weekends[employees[e].id][j]
                   pair == decision_variables.pairs[employees[e].id]
                               [weekend.day_indices[1] + 1]
               IN  /\ InSeq(Constraint(<< <<1, weekend.var>>, <<-1, pair>> >>, "==", 0),
                            problem.constraints)
                   /\ Solved => weekend_off(e, j) = weekend_pair_off(e, j, 1)

\* C23 (Saturday start gives a leading half-weekend): in a schedule that
\* starts on a Saturday, once the variables are created the first weekend
\* variable of every employee owns exactly the day-pair index 0, the pair of
\* the first Saturday and Sunday, every following weekend owns two, and in a
\* satisfying assignment the first weekend variable equals the variable of
\* that pair.
C23_SaturdayStartHalfWeekend ==
    (start_day = WEEKDAY_SAT /\ pc \notin {"shifts", "variables"}
         /\ Len(work_site_demands) >= 2) =>
        \A e \in Staff :
            LET weekends == decision_variables.weekends[employees[e].id]
            IN  /\ Len(weekends) >= 1
                /\ weekends[1].var = WVar(employees[e].id, 0)
                /\ weekends[1].day_indices = <<0>>
                /\ \A j \in 2..Len(weekends) : Len(weekends[j].day_indices) = 2
                /\ Solved => values[WVar(employees[e].id, 0)]
                                 = values[PVar(employees[e].id, 0)]

\* The positions of the objective's terms over a variable.
objective_terms_of(var) ==
    {t \in 1..Len(problem.objective) : problem.objective[t][2] = var}

\* Whether some period of candidate shift k of employee e on day d is
\* marked UNDESIRABLE in the preferences of that day.
undesirable_shift(e, d, k) ==
    /\ d \in DOMAIN employees[e].preferences
    /\ \E q \in shift_periods(e, d, k) :
           /\ q \in DOMAIN employees[e].preferences[d]
           /\ employees[e].preferences[d][q] = UNDESIRABLE

\* C24 (preference factor in the objective): once the objective is set, the
\* variable of every candidate shift has one term in it, whose coefficient
\* is the preference weight times 8 when a period of the shift is marked
\* UNDESIRABLE for that day and the preference weight otherwise.
C24_PreferenceFactor ==
    pc \in {"constraints", "solve", "report", "done", "raised"} =>
        \A e \in Staff : \A d \in Days :
            \A k \in 1..Len(employees[e].shifts[d + 1]) :
                LET terms == objective_terms_of(XVar(employees[e].id, d, k - 1))
                IN  /\ Cardinality(terms) = 1
                    /\ \A t \in terms :
                           problem.objective[t][1]
                               = weights.preference
                                   * (IF undesirable_shift(e, d, k) THEN 8 ELSE 1)

\* The positions of the objective's terms over day-pair variables of
\* employee e.
pair_reward_terms(e) ==
    {t \in 1..Len(problem.objective) :
        /\ problem.objective[t][2][1] = "p"
        /\ problem.objective[t][2][2] = employees[e].id}

\* The last days of the complete 7-day blocks.
block_ends == {d \in Days : d % 7 = 6}

\* C25 (paired-days-off reward): once the objective is set it holds, for
\* every employee and every complete 7-day block ending at day d, exactly
\* one term -W.day_pairs_off * p_i; the index i is one of, and can be any
\* of, d-6..d-1 when d is not the last day and d-6..d when it is; there is
\* no other such term.
C25_PairedDaysOffReward ==
    pc \in {"constraints", "solve", "report", "done", "raised"} =>
        \A e \in Staff :
            /\ Cardinality(pair_reward_terms(e)) = Cardinality(block_ends)
            /\ \A d \in block_ends :
                   LET allowed == IF d = Len(work_site_demands) - 1
                                  THEN (d - 6)..d ELSE (d - 6)..(d - 1)
                       terms == {t \in pair_reward_terms(e) :
                                    problem.objective[t][2][3] \in allowed}
                   IN  /\ Cardinality(terms) = 1
                       /\ \A t \in terms :
                              problem.objective[t][1] = -weights.day_pairs_off
                       /\ elements(reward_indices(Len(employees[e].shifts), d))
                              = allowed

\* Whether employee e has no candidate shift on day d.
no_candidates(e, d) == employees[e].shifts[d + 1] = <<>>

\* The shortest shift of employee e, in periods.
minimum_shift(e) ==
    IF IS_IN_SCHOOL \in employees[e].special_properties
    THEN 2 * PERIODS_PER_HOUR ELSE MINIMUM_SHIFT_IN_PERIODS

\* Whether the coverage constraints of day d, read with no shift variable
\* in them, can be satisfied by surplus variables y >= 0.
bare_coverage_satisfiable(d) ==
    \A p \in Periods(d) :
        \E y \in 0..MaxDemand : -y = work_site_demands[d + 1][p + 1]

C27_RunOrder ==
    [][/\ decision_variables' # decision_variables =>
              /\ pc = "variables"
              /\ \A e \in Staff : Len(employees[e].shifts) = Len(work_site_demands)
       /\ problem'.objective # problem.objective =>
              /\ pc = "objective"
              /\ decision_variables # <<>>
              /\ problem.constraints = <<>>
       /\ pc' = "solve" => (pc = "constraints" /\ raised' = "")
       /\ (status' # status \/ values' # values) =>
              /\ pc = "solve" /\ status = LpStatusNotSolved
              /\ problem.objective # <<>> /\ problem.constraints # <<>>
              /\ problem' = problem
              /\ status' \in {LpStatusOptimal, LpStatusInfeasible}
       /\ pc \in {"report", "done", "raised"} =>
              (pc = "report" /\ pc' = "done" /\ status' = status /\ values' = values)
       /\ pc' \in {"report", "done"} => status' # LpStatusNotSolved]_vars

\* C27 witness: a run that has reported an infeasible problem.
C27_Witness ==
    /\ pc = "done"
    /\ status = LpStatusInfeasible
    /\ problem.constraints # <<>>
    /\ decision_variables # <<>>

\* The weekend indices of the weekends configuration of employee e: those
\* of 'single' and those of every group after its leading count.
configured_weekends(e) ==
    LET config == employees[e].weekends_config
        single == IF "single" \in DOMAIN config THEN elements(config["single"]) ELSE {}
        groups == IF "groups" \in DOMAIN config
                  THEN UNION {elements(Tail(config["groups"][g])) :
                              g \in 1..Len(config["groups"])}
                  ELSE {}
    IN  single \cup groups

\* C28: for a schedule of whole weeks, every weekend index that
\* create_random_employee puts into 'single' or into a group is at least 0
\* and below the number of weekend variables create_decision_variables
\* creates for the employee, so that create_constraints raises no
\* IndexError; groups are generated only for more than 3 weeks.
C28_GeneratedWeekendsValid ==
    (pc \in {"objective", "constraints", "solve", "raised"}
     /\ Len(work_site_demands) % 7 = 0)
    => \A e \in Staff :
          /\ \A i \in configured_weekends(e) :
                 i >= 0 /\ i < Len(decision_variables.weekends[employees[e].id])
          /\ raised # "IndexError"
          /\ ("groups" \in DOMAIN employees[e].weekends_config
              /\ employees[e].weekends_config["groups"] # <<>>)
             => Len(work_site_demands) > 3 * 7

\* C29 (day-pair index safety): for every employee with N_days >= 1 and
\* every start_day, once the objective is set, each weekend variable stores
\* one or two day-pair indices, each in [0, N_days - 2]; two stored indices
\* are f and f + 1 with f a Friday and f + 1 a Saturday of the calendar
\* that begins at start_day; every index the paired-days-off reward chose,
\* and every index it could choose, is in [0, N_days - 2].
C29_DayPairIndexSafety ==
    pc \in {"constraints", "solve", "raised"} =>
        \A e \in Staff :
            LET N_days == Len(employees[e].shifts)
                weekends == decision_variables.weekends[employees[e].id]
            IN  /\ \A j \in DOMAIN weekends :
                       LET day_indices == weekends[j].day_indices
                       IN  /\ Len(day_indices) \in {1, 2}
                           /\ elements(day_indices) \subseteq 0..(N_days - 2)
                           /\ Len(day_indices) = 2 =>
                                  /\ day_indices[2] = day_indices[1] + 1
                                  /\ (start_day + day_indices[1]) % 7 = WEEKDAY_FRI
                                  /\ (start_day + day_indices[2]) % 7 = WEEKDAY_SAT
                /\ \A t \in pair_reward_terms(e) :
                       problem.objective[t][2][3] \in 0..(N_days - 2)
                /\ \A d \in block_ends :
                       elements(reward_indices(N_days, d)) \subseteq 0..(N_days - 2)

\* C29 witness: the objective is set for a schedule that begins on a
\* Saturday, whose employee has a weekend variable with two day pairs, a
\* weekend variable with one, and a rewarded day pair.
C29_Witness ==
    /\ pc = "constraints"
    /\ start_day = WEEKDAY_SAT
    /\ \E e \in Staff :
           LET weekends == decision_variables.weekends[employees[e].id]
           IN  /\ \E j \in DOMAIN weekends : Len(weekends[j].day_indices) = 2
               /\ \E j \in DOMAIN weekends : Len(weekends[j].day_indices) = 1
               /\ pair_reward_terms(e) # {}

\* The sum of the mean weekly hours of the stored employees with the ids.
mean_hours_of(ids) ==
    IF ids = {} THEN 0
    ELSE sum_values([id \in ids |-> (employee_list[id].min_hours
                                        + employee_list[id].max_hours) \div 2], ids)

====
